---- MODULE Spec2Model ----
(***************************************************************************)
(* Payment verification and settlement confirmation of the Solana x402     *)
(* agents: SolanaPaymentExecutor.verifyPayment (merchant side), the         *)
(* requirement builder and payment signer of the payment-flow test, and    *)
(* the confirmation poller SolanaWallet.confirmTransaction.                 *)
(***************************************************************************)
EXTENDS Integers, Sequences, FiniteSets, TLC

VARIABLES
    requirements,   \* the SolanaPaymentRequirements handed to verifyPayment, or NoValue
    issuedAt,       \* time (seconds) at which the requirements were issued
    payload,        \* the SolanaPaymentPayload handed to verifyPayment, or NoValue
    verifyLog,      \* the calls of verifyPayment so far: order, time, arguments, result
    now,            \* wall clock, in seconds
    cpc,            \* confirmTransaction: position of the call
    maxRetries,     \* confirmTransaction: its maxRetries argument
    retries,        \* confirmTransaction: its local counter
    polls,          \* confirmTransaction: outcome of every getSignatureStatuses call made
    sleeps,         \* confirmTransaction: number of one-second sleeps made
    thrown,         \* confirmTransaction: the error it ended with, or NoValue
    op,             \* client wallet: the operation running (transferSol, requestAirdrop), or NoValue
    tpc,            \* client wallet: position of that operation
    steps,          \* client wallet: the requests the operation has made, in order
    txSignature,    \* client wallet: signature of the transaction the operation waits for
    outcome,        \* client wallet: what the operation gave its caller, or NoValue
    env,            \* merchant agent: process.env at start
    mpc,            \* merchant agent: module not loaded, loaded, or load aborted
    walletInit,     \* merchant agent: state of the asynchronous Solana wallet creation
    solanaMerchantAddress,  \* merchant agent: the variable of that name, or Undefined
    toolCalls,      \* merchant agent: tool calls made so far and what each gave
    ledger,         \* the ledger: the confirmed transaction under each signature, or NoValue
    lookupsInFlight,\* the calls of verifyOnChainTransaction that wait for getTransaction
    onChainLog,     \* the calls of verifyOnChainTransaction that returned: arguments, lookup, result
    sessionId,      \* client agent: state.sessionId, or Undefined
    pendingPayment, \* client agent: state.pendingPayment, or Undefined
    calls,          \* client agent: the tool calls started so far and where each stands
    sessions,       \* client agent: sessions the merchant server has created for it
    sessionRequests,\* client agent: session requests sent
    transfers,      \* client agent: the transfers started so far and how each ended
    notifications,  \* client agent: requests notifyMerchant has sent
    offers,         \* client agent: payment requirements received
    fpc,            \* payment-flow test: the await the script stands at, or how it ended
    merchantWallet, \* payment-flow test: address of the merchant wallet, or NoValue
    clientAddress,  \* payment-flow test: address of the client wallet, or NoValue
    paymentRequirements,    \* payment-flow test: the constant of that name, or NoValue
    paymentPayload, \* payment-flow test: the constant of that name, or NoValue
    merchantBalanceBefore,  \* payment-flow test: the constant of that name (0 until read)
    merchantBalanceAfter,   \* payment-flow test: the constant of that name (0 until read)
    transferResult, \* payment-flow test: what transferSol returned, or NoValue
    flowSteps,      \* payment-flow test: the steps passed so far, in order
    flowError,      \* payment-flow test: message of the error caught, "" for none
    exitCode        \* payment-flow test: exit code of the process, -1 while it runs

vars == <<requirements, issuedAt, payload, verifyLog, now,
          cpc, maxRetries, retries, polls, sleeps, thrown,
          op, tpc, steps, txSignature, outcome,
          env, mpc, walletInit, solanaMerchantAddress, toolCalls,
          ledger, lookupsInFlight, onChainLog,
          sessionId, pendingPayment, calls, sessions, sessionRequests, transfers,
          notifications, offers,
          fpc, merchantWallet, clientAddress, paymentRequirements, paymentPayload,
          merchantBalanceBefore, merchantBalanceAfter, transferResult, flowSteps,
          flowError, exitCode>>

verifierVars == <<requirements, issuedAt, payload, verifyLog, now>>
pollerVars == <<cpc, maxRetries, retries, polls, sleeps, thrown>>
transferVars == <<op, tpc, steps, txSignature, outcome>>
merchantVars == <<env, mpc, walletInit, solanaMerchantAddress, toolCalls>>
chainVars == <<ledger, lookupsInFlight, onChainLog>>
clientVars == <<sessionId, pendingPayment, calls, sessions, sessionRequests, transfers,
                notifications, offers>>
flowVars == <<fpc, merchantWallet, clientAddress, paymentRequirements, paymentPayload,
              merchantBalanceBefore, merchantBalanceAfter, transferResult, flowSteps,
              flowError, exitCode>>

\* What the operations of one component leave alone.
exceptVerifier == <<pollerVars, transferVars, merchantVars, chainVars, clientVars, flowVars>>
exceptPoller == <<verifierVars, transferVars, merchantVars, chainVars, clientVars, flowVars>>
exceptTransfer == <<verifierVars, merchantVars, chainVars, clientVars, flowVars>>
exceptMerchant == <<verifierVars, pollerVars, transferVars, chainVars, clientVars, flowVars>>
exceptChain == <<verifierVars, pollerVars, transferVars, merchantVars, clientVars, flowVars>>
exceptClient == <<verifierVars, pollerVars, transferVars, merchantVars, chainVars, flowVars>>
exceptFlow == <<verifierVars, pollerVars, transferVars, merchantVars, chainVars, clientVars>>

NoValue == [none |-> TRUE]
Undefined == [type |-> "undefined"]

(***************************************************************************)
(* Bounds of the model.                                                    *)
(***************************************************************************)
MaxCalls == 2       \* verifyPayment calls in one behaviour
MaxTicks == 2       \* clock advances in one behaviour
MaxAttempts == 3    \* largest maxRetries a confirmTransaction call is given

(***************************************************************************)
(* Strings of the language are sequences of UTF-16 code units.  The        *)
(* strings of the model hold printable ASCII, tab, line feed, form feed    *)
(* and carriage return; CodeUnits gives their code units, and the          *)
(* operators on text below work on code units, so that they are defined    *)
(* for every string of the language.                                       *)
(***************************************************************************)
\* The characters U+0020 to U+007E, in order; the place of U+0060, which no
\* string of the model can hold, is empty.
AsciiChars ==
    << " ", "!", "\"", "#", "$", "%", "&", "'", "(", ")", "*", "+",
       ",", "-", ".", "/", "0", "1", "2", "3", "4", "5", "6", "7",
       "8", "9", ":", ";", "<", "=", ">", "?", "@", "A", "B", "C",
       "D", "E", "F", "G", "H", "I", "J", "K", "L", "M", "N", "O",
       "P", "Q", "R", "S", "T", "U", "V", "W", "X", "Y", "Z", "[",
       "\\", "]", "^", "_", "", "a", "b", "c", "d", "e", "f", "g",
       "h", "i", "j", "k", "l", "m", "n", "o", "p", "q", "r", "s",
       "t", "u", "v", "w", "x", "y", "z", "{", "|", "}", "~" >>

RECURSIVE CodeUnits(_)
CodeUnits(s) ==
    IF s = "" THEN <<>>
    ELSE LET c == Head(s)
             unit == IF c = "\t" THEN 9
                     ELSE IF c = "\n" THEN 10
                     ELSE IF c = "\f" THEN 12
                     ELSE IF c = "\r" THEN 13
                     ELSE 31 + (CHOOSE i \in 1..95 : AsciiChars[i] = c)
         IN  <<unit>> \o CodeUnits(Tail(s))

(***************************************************************************)
(* BigInt( string ): StringToBigInt of the language.  Leading and trailing *)
(* white space is dropped, the empty string is 0n, a decimal literal may   *)
(* carry a sign, 0x / 0o / 0b literals may not, anything else throws a     *)
(* SyntaxError.                                                            *)
(***************************************************************************)
DigitChars == <<"0", "1", "2", "3", "4", "5", "6", "7", "8", "9",
                "a", "b", "c", "d", "e", "f">>

\* The WhiteSpace and LineTerminator code points, which StringToBigInt and
\* trim strip: U+0009 to U+000D, U+0020, U+00A0, U+1680, U+2000 to U+200A,
\* U+2028, U+2029, U+202F, U+205F, U+3000 and U+FEFF.
WhiteSpaceChars ==
    {9, 10, 11, 12, 13, 32, 160, 5760} \cup (8192..8202)
        \cup {8232, 8233, 8239, 8287, 12288, 65279}

\* The value of the code unit c as a digit; 36 when it is no digit.
DigitValue(c) ==
    IF c \in 48..57 THEN c - 48
    ELSE IF c \in 97..102 THEN c - 87
    ELSE IF c \in 65..70 THEN c - 55
    ELSE 36

RECURSIVE TrimStart(_)
TrimStart(u) ==
    IF u # <<>> /\ Head(u) \in WhiteSpaceChars THEN TrimStart(Tail(u)) ELSE u

RECURSIVE TrimEnd(_)
TrimEnd(u) ==
    IF u # <<>> /\ u[Len(u)] \in WhiteSpaceChars
    THEN TrimEnd(SubSeq(u, 1, Len(u) - 1))
    ELSE u

RECURSIVE AllDigits(_, _)
AllDigits(u, radix) ==
    IF u = <<>> THEN TRUE
    ELSE DigitValue(Head(u)) < radix /\ AllDigits(Tail(u), radix)

RECURSIVE DigitsValue(_, _, _)
DigitsValue(u, radix, acc) ==
    IF u = <<>> THEN acc
    ELSE DigitsValue(Tail(u), radix, acc * radix + DigitValue(Head(u)))

Returned(v) == [ok |-> TRUE, value |-> v]
Threw(msg) == [ok |-> FALSE, message |-> msg]

\* StringToBigInt of the code units u: the integer, or no value when the
\* trimmed text is no literal.
StringToBigInt(u) ==
    LET t == TrimEnd(TrimStart(u))
        radix == IF Len(t) < 2 \/ t[1] # 48 THEN 10
                 ELSE IF t[2] \in {120, 88} THEN 16     \* 0x 0X
                 ELSE IF t[2] \in {111, 79} THEN 8      \* 0o 0O
                 ELSE IF t[2] \in {98, 66} THEN 2       \* 0b 0B
                 ELSE 10
        signed == t # <<>> /\ t[1] \in {43, 45}         \* + -
        digits == IF radix # 10 THEN SubSeq(t, 3, Len(t))
                  ELSE IF signed THEN Tail(t)
                  ELSE t
        magnitude == DigitsValue(digits, radix, 0)
    IN  IF t = <<>> THEN Returned(0)
        ELSE IF digits = <<>> \/ ~AllDigits(digits, radix) THEN [ok |-> FALSE]
        ELSE IF signed /\ t[1] = 45 THEN Returned(0 - magnitude)
        ELSE Returned(magnitude)

BigInt(s) ==
    LET n == StringToBigInt(CodeUnits(s))
    IN  IF n.ok THEN n ELSE Threw("Cannot convert " \o s \o " to a BigInt")

\* bigint.toString() and the `${ bigint }` of a template literal
bigintToString(n) == ToString(n)

(***************************************************************************)
(* Buffer.from( bytes ).toString( 'hex' )                                  *)
(***************************************************************************)
byteToHex(b) == DigitChars[(b \div 16) + 1] \o DigitChars[(b % 16) + 1]

RECURSIVE toHex(_)
toHex(bytes) ==
    IF bytes = <<>> THEN ""
    ELSE byteToHex(Head(bytes)) \o toHex(Tail(bytes))

(***************************************************************************)
(* Requirement builder and payment signer of the payment-flow test.        *)
(***************************************************************************)
createSolanaPaymentRequirements(merchantAddress, productName, priceInLamports) ==
    [ scheme            |-> "exact",
      network           |-> "solana-devnet",
      payTo             |-> merchantAddress,
      maxAmountRequired |-> bigintToString(priceInLamports),
      description       |-> "Payment for: " \o productName,
      resource          |-> "https://example.com/product/" \o productName,
      extra             |-> [product |-> [name    |-> productName,
                                          sku     |-> productName \o "_sku",
                                          version |-> "1"]] ]

\* A client wallet is its address and the 64 bytes its signData yields.
signSolanaPayment_SwappedParties(clientWallet, reqs, time) ==
    [ from      |-> reqs.payTo,
      to        |-> clientWallet.address,
      amount    |-> reqs.maxAmountRequired,
      signature |-> toHex(clientWallet.signData),
      timestamp |-> time,
      network   |-> reqs.network ]

signSolanaPayment(clientWallet, reqs, time) ==
    [ from      |-> clientWallet.address,
      to        |-> reqs.payTo,
      amount    |-> reqs.maxAmountRequired,
      signature |-> toHex(clientWallet.signData),
      timestamp |-> time,
      network   |-> reqs.network ]

(***************************************************************************)
(* SolanaPaymentExecutor.verifyPayment                                     *)
(***************************************************************************)
Accepted(p, paymentAmount) ==
    [ isValid              |-> TRUE,
      transactionSignature |-> p.signature,
      amount               |-> paymentAmount,
      from                 |-> p.from,
      to                   |-> p.to ]

Rejected(msg) == [isValid |-> FALSE, error |-> msg]

WrongAddressError(p, r) ==
    "Payment sent to wrong address. Expected: " \o r.payTo \o ", Got: " \o p.to
IncorrectAmountError(paymentAmount, requiredAmount) ==
    "Incorrect payment amount. Expected: " \o bigintToString(requiredAmount)
        \o ", Got: " \o bigintToString(paymentAmount)
ExceedsMaximumError(paymentAmount, requiredAmount) ==
    "Payment amount exceeds maximum. Max: " \o bigintToString(requiredAmount)
        \o ", Got: " \o bigintToString(paymentAmount)
WrongNetworkError(p, r) ==
    "Wrong network. Expected: " \o r.network \o ", Got: " \o p.network
InvalidSignatureError == "Invalid signature format"

WrongRecipient_Never(p, r) == FALSE

WrongRecipient(p, r) == p.to # r.payTo

ExactAmountMismatch_OnlyWhenLarger(scheme, paymentAmount, requiredAmount) ==
    scheme = "exact" /\ paymentAmount > requiredAmount

ExactAmountMismatch(scheme, paymentAmount, requiredAmount) ==
    scheme = "exact" /\ paymentAmount # requiredAmount

UpToAmountExceeds_OrEqual(scheme, paymentAmount, requiredAmount) ==
    scheme = "up-to" /\ paymentAmount >= requiredAmount

UpToAmountExceeds(scheme, paymentAmount, requiredAmount) ==
    scheme = "up-to" /\ paymentAmount > requiredAmount

NetworkMismatch_Never(p, r) == FALSE

NetworkMismatch(p, r) == p.network # r.network

InvalidSignatureFormat_EmptyOnly(signature) == signature = ""

InvalidSignatureFormat(signature) == signature = "" \/ Len(signature) < 64

\* The body of the try block: a result, or the error a BigInt conversion throws.
verifyPaymentTry(p, r) ==
    IF WrongRecipient(p, r) THEN Returned(Rejected(WrongAddressError(p, r)))
    ELSE
    LET paymentAmount == BigInt(p.amount)
        requiredAmount == BigInt(r.maxAmountRequired)
    IN  IF ~paymentAmount.ok THEN paymentAmount
        ELSE IF ~requiredAmount.ok THEN requiredAmount
        ELSE IF ExactAmountMismatch(r.scheme, paymentAmount.value, requiredAmount.value)
        THEN Returned(Rejected(IncorrectAmountError(paymentAmount.value, requiredAmount.value)))
        ELSE IF UpToAmountExceeds(r.scheme, paymentAmount.value, requiredAmount.value)
        THEN Returned(Rejected(ExceedsMaximumError(paymentAmount.value, requiredAmount.value)))
        ELSE IF NetworkMismatch(p, r) THEN Returned(Rejected(WrongNetworkError(p, r)))
        ELSE IF InvalidSignatureFormat(p.signature)
        THEN Returned(Rejected(InvalidSignatureError))
        ELSE Returned(Accepted(p, paymentAmount.value))

\* An error that leaves the call: the returned promise rejects.
Escaped(msg) == [escaped |-> TRUE, message |-> msg]

verifyPayment_NoCatch(p, r) ==
    LET t == verifyPaymentTry(p, r)
    IN  IF t.ok THEN t.value ELSE Escaped(t.message)

\* try { ... } catch ( error ) { return { isValid: false, error: error.message } }
verifyPayment(p, r) ==
    LET t == verifyPaymentTry(p, r)
    IN  IF t.ok THEN t.value ELSE Rejected(t.message)

(***************************************************************************)
(* Merchant agent: the requirements getProductDetailsAndRequestSolanaPayment*)
(* attaches to its x402PaymentRequiredException.                           *)
(***************************************************************************)
\* maxTimeoutSeconds of the requirements the merchant issues
maxTimeoutSeconds == 1200

\* ( priceSOL * 1e9 ).toString() with priceSOL = 0.1
priceLamports == bigintToString(100000000)

solanaPaymentRequirements(productName, merchantAddress) ==
    [ scheme            |-> "exact",
      network           |-> "solana-devnet",
      asset             |-> "SOL",
      payTo             |-> merchantAddress,
      maxAmountRequired |-> priceLamports,
      description       |-> "Payment for: " \o productName,
      resource          |-> "https://example.com/product/" \o productName,
      mimeType          |-> "application/json",
      maxTimeoutSeconds |-> maxTimeoutSeconds,
      extra             |-> [name       |-> "SOL",
                             version    |-> "2",
                             blockchain |-> "solana",
                             product    |-> [sku     |-> productName \o "_sku",
                                             name    |-> productName,
                                             version |-> "1"]] ]

(***************************************************************************)
(* Inputs.                                                                 *)
(***************************************************************************)
MerchantAddresses == {"M1", "M2"}
ClientAddresses == {"C1"}
ProductNames == {"banana", "apple"}
Orders == {"order-1", "order-2"}
Prices == {100000000, 500000000}
Schemes == {"exact", "up-to"}
Networks == {"net-A", "net-B"}

ShortProof == "abc"
Proof64 == toHex([i \in 1..32 |-> (i * 7) % 256])
SignatureBytes == { [i \in 1..64 |-> 0], [i \in 1..64 |-> (i * 5) % 256] }
ClientWallets == [address : ClientAddresses, signData : SignatureBytes]

\* Amount strings an untrusted payer may send: integers in several spellings
\* and strings that are no integer.
AmountStrings == {"100000000", " 0100000000", "300000000", "600000000", "-5", "abc"}
ProofStrings == {"", ShortProof, Proof64}

\* The signature of a transaction, as transferSol gives it to the payer.
TxReference ==
    "5VERv8NMvzbJMEkV8xnrLkEaWRtSz9CosKDYjCJjBRnbJLgp8uirBgmQpjKhoR4tjF3ZpRzrFmBV6UjKdiSZkQUW"

TxReferences == {TxReference}

ChosenRequirements ==
    [ scheme            : Schemes,
      network           : {"net-A"},
      asset             : {"SOL"},
      payTo             : {"M1"},
      maxAmountRequired : {"100000000", "500000000"},
      description       : {"Payment for: banana"} ]

PresentedPayloads(time) ==
    [ from      : ClientAddresses,
      to        : MerchantAddresses,
      amount    : AmountStrings,
      signature : ProofStrings,
      timestamp : {time},
      network   : Networks ]

(***************************************************************************)
(* The verifier: operations.                                               *)
(***************************************************************************)
\* The merchant builds the requirements of a purchase.
CreateRequirements(merchantAddress, productName, price) ==
    /\ requirements = NoValue
    /\ requirements' = createSolanaPaymentRequirements(merchantAddress, productName, price)
    /\ issuedAt' = now
    /\ UNCHANGED <<payload, verifyLog, now>>
    /\ UNCHANGED exceptVerifier

\* The merchant agent answers a purchase request with its Solana requirements.
RequestSolanaPayment(productName, merchantAddress) ==
    /\ requirements = NoValue
    /\ requirements' = solanaPaymentRequirements(productName, merchantAddress)
    /\ issuedAt' = now
    /\ UNCHANGED <<payload, verifyLog, now>>
    /\ UNCHANGED exceptVerifier

\* Requirements of any scheme reach the verifier.
ChooseRequirements(r) ==
    /\ requirements = NoValue
    /\ requirements' = r
    /\ issuedAt' = now
    /\ UNCHANGED <<payload, verifyLog, now>>
    /\ UNCHANGED exceptVerifier

\* The client signs a payment for the requirements it received.
SignPayment(clientWallet) ==
    /\ requirements # NoValue
    /\ payload = NoValue
    /\ payload' = signSolanaPayment(clientWallet, requirements, now)
    /\ UNCHANGED <<requirements, issuedAt, verifyLog, now>>
    /\ UNCHANGED exceptVerifier

\* An untrusted caller presents a payload of its own making.
PresentPayload(p) ==
    /\ requirements # NoValue
    /\ payload = NoValue
    /\ payload' = p
    /\ UNCHANGED <<requirements, issuedAt, verifyLog, now>>
    /\ UNCHANGED exceptVerifier

\* The merchant verifies the payload for an order.
VerifyPayment(order) ==
    /\ Len(verifyLog) < MaxCalls
    /\ requirements # NoValue
    /\ payload # NoValue
    /\ verifyLog' = Append(verifyLog,
            [ order        |-> order,
              at           |-> now,
              issuedAt     |-> issuedAt,
              payload      |-> payload,
              requirements |-> requirements,
              result       |-> verifyPayment(payload, requirements) ])
    /\ UNCHANGED <<requirements, issuedAt, payload, now>>
    /\ UNCHANGED exceptVerifier

\* Time passes between the issue of the requirements and the payment.
Tick ==
    /\ requirements # NoValue
    /\ payload = NoValue
    /\ now < MaxTicks * maxTimeoutSeconds
    /\ now' = now + maxTimeoutSeconds
    /\ UNCHANGED <<requirements, issuedAt, payload, verifyLog>>
    /\ UNCHANGED exceptVerifier

Init ==
    /\ requirements = NoValue
    /\ issuedAt = 0
    /\ payload = NoValue
    /\ verifyLog = <<>>
    /\ now = 0
    /\ cpc = "idle"
    /\ maxRetries = 0
    /\ retries = 0
    /\ polls = <<>>
    /\ sleeps = 0
    /\ thrown = NoValue
    /\ op = NoValue
    /\ tpc = "idle"
    /\ steps = <<>>
    /\ txSignature = NoValue
    /\ outcome = NoValue
    /\ env = NoValue
    /\ mpc = "unloaded"
    /\ walletInit = "none"
    /\ solanaMerchantAddress = Undefined
    /\ toolCalls = <<>>
    /\ ledger = [signature \in TxReferences |-> NoValue]
    /\ lookupsInFlight = <<>>
    /\ onChainLog = <<>>
    /\ sessionId = Undefined
    /\ pendingPayment = Undefined
    /\ calls = <<>>
    /\ sessions = 0
    /\ sessionRequests = 0
    /\ transfers = <<>>
    /\ notifications = 0
    /\ offers = 0
    /\ fpc = "notStarted"
    /\ merchantWallet = NoValue
    /\ clientAddress = NoValue
    /\ paymentRequirements = NoValue
    /\ paymentPayload = NoValue
    /\ merchantBalanceBefore = 0
    /\ merchantBalanceAfter = 0
    /\ transferResult = NoValue
    /\ flowSteps = <<>>
    /\ flowError = ""
    /\ exitCode = -1

Next ==
    \/ \E m \in MerchantAddresses, n \in ProductNames, price \in Prices :
            CreateRequirements(m, n, price)
    \/ \E n \in ProductNames, m \in MerchantAddresses : RequestSolanaPayment(n, m)
    \/ \E r \in ChosenRequirements : ChooseRequirements(r)
    \/ \E w \in ClientWallets : SignPayment(w)
    \/ \E p \in PresentedPayloads(now) : PresentPayload(p)
    \/ \E order \in Orders : VerifyPayment(order)
    \/ Tick

Spec == Init /\ [][Next]_vars

(***************************************************************************)
(* SolanaWallet.confirmTransaction: the confirmation poller.               *)
(***************************************************************************)
\* What one getSignatureStatuses call can give: the request fails, the entry
\* value[ 0 ] is null, or it is a status with its confirmationStatus and err.
RpcFailure == [kind |-> "rpcError", message |-> "fetch failed"]
AbsentStatus == [kind |-> "absent"]
SignatureStatuses ==
    [ kind               : {"status"},
      confirmationStatus : {"processed", "confirmed", "finalized"},
      err                : {"null", "InstructionError"} ]
PollResponses == {RpcFailure, AbsentStatus} \cup SignatureStatuses

TimeoutError == "Transaction confirmation timeout"
\* The message holds JSON.stringify( status.err ): err is a string here, and
\* its JSON text is the string in double quotes.
TransactionFailedError(err) == "Transaction failed: \"" \o err \o "\""

\* The try block of one iteration: "return", fall through to the sleep, or throw.
pollTry_NoReturn(response) ==
    IF response.kind = "rpcError" THEN Threw(response.message)
    ELSE IF /\ response.kind = "status"
            /\ response.confirmationStatus \in {"confirmed", "finalized"}
            /\ response.err # "null"
    THEN Threw(TransactionFailedError(response.err))
    ELSE Returned("fallthrough")

pollTry(response) ==
    IF response.kind = "rpcError" THEN Threw(response.message)
    ELSE IF /\ response.kind = "status"
            /\ response.confirmationStatus \in {"confirmed", "finalized"}
    THEN IF response.err # "null"
         THEN Threw(TransactionFailedError(response.err))
         ELSE Returned("return")
    ELSE Returned("fallthrough")

\* A catch block that throws every error on.
pollIteration_AlwaysRethrows(response, r, m) == pollTry(response)

\* catch ( error ) { if ( retries === maxRetries - 1 ) throw error; }
pollIteration(response, r, m) ==
    LET t == pollTry(response)
    IN  IF t.ok THEN t
        ELSE IF r = m - 1 THEN t
        ELSE Returned("fallthrough")

\* Entry of confirmTransaction( signature, m ): retries = 0 and the loop test.
EnterConfirm(m) ==
    /\ cpc = "idle"
    /\ maxRetries' = m
    /\ retries' = 0
    /\ IF 0 < m
       THEN cpc' = "poll" /\ thrown' = thrown
       ELSE cpc' = "threw" /\ thrown' = TimeoutError
    /\ UNCHANGED <<polls, sleeps>>

\* confirmTransaction( signature, m ) is called.
StartConfirm(m) ==
    /\ EnterConfirm(m)
    /\ UNCHANGED exceptPoller

\* One getSignatureStatuses call and what the iteration makes of its answer.
Poll(response) ==
    /\ cpc = "poll"
    /\ polls' = Append(polls, response)
    /\ LET t == pollIteration(response, retries, maxRetries)
       IN  IF ~t.ok THEN cpc' = "threw" /\ thrown' = t.message
           ELSE IF t.value = "return" THEN cpc' = "returned" /\ thrown' = thrown
           ELSE cpc' = "sleep" /\ thrown' = thrown
    /\ UNCHANGED <<maxRetries, retries, sleeps>>
    /\ UNCHANGED exceptPoller


\* A pause that starts the attempts over instead of giving up.
Sleep_StartsOver ==
    /\ cpc = "sleep"
    /\ IF retries + 1 < maxRetries
       THEN retries' = retries + 1 /\ sleeps' = sleeps + 1 /\ polls' = polls
       ELSE retries' = 0 /\ sleeps' = 0 /\ polls' = <<>>
    /\ cpc' = "poll"
    /\ UNCHANGED <<maxRetries, thrown>>
    /\ UNCHANGED exceptPoller

\* A pause whose loop test gives up one attempt early.
Sleep_OneAttemptShort ==
    /\ cpc = "sleep"
    /\ sleeps' = sleeps + 1
    /\ retries' = retries + 1
    /\ IF retries + 2 < maxRetries
       THEN cpc' = "poll" /\ thrown' = thrown
       ELSE cpc' = "threw" /\ thrown' = TimeoutError
    /\ UNCHANGED <<maxRetries, polls>>
    /\ UNCHANGED exceptPoller

\* The one-second sleep, retries++, and the loop test.
Sleep ==
    /\ cpc = "sleep"
    /\ sleeps' = sleeps + 1
    /\ retries' = retries + 1
    /\ IF retries + 1 < maxRetries
       THEN cpc' = "poll" /\ thrown' = thrown
       ELSE cpc' = "threw" /\ thrown' = TimeoutError
    /\ UNCHANGED <<maxRetries, polls>>
    /\ UNCHANGED exceptPoller

NextPoller ==
    \/ \E m \in 0..MaxAttempts : StartConfirm(m)
    \/ \E response \in PollResponses : Poll(response)
    \/ Sleep

SpecPoller == Init /\ [][NextPoller]_vars

(***************************************************************************)
(* The client wallet's transferSol and requestAirdrop.  Each makes its     *)
(* requests to the RPC node in program order and then waits in             *)
(* confirmTransaction with the default maxRetries.                         *)
(***************************************************************************)
\* Default of confirmTransaction's maxRetries parameter
DefaultMaxRetries == 30

\* Polls of one confirmTransaction call whose answer ranges over every
\* response; the polls between them and the last attempt range over
\* LaterResponses (one response that lets the loop go on, one that ends it).
FreePolls == 1

LaterResponses ==
    {AbsentStatus,
     [kind |-> "status", confirmationStatus |-> "finalized", err |-> "null"]}

\* The responses the model offers to poll number n + 1 of m.
ResponsesAt(n, m) ==
    IF n < FreePolls \/ n >= m - 1 THEN PollResponses ELSE LaterResponses

Lamports == {100000000, 500000000}
TxSignatures == {"sig-1"}
BlockhashErrors == {"fetch failed"}
SigningErrors == {"Cannot sign: key pair unavailable"}
SendErrors == {"fetch failed", "Transaction simulation failed: insufficient lamports"}
AirdropErrors == {"fetch failed", "airdrop limit reached"}

\* What transferSol returns from its catch block.
transferFailure(errorMessage) == [success |-> FALSE, error |-> errorMessage]

\* What transferSol returns after confirmTransaction returned.
transferSuccess(signature) == [success |-> TRUE, signature |-> signature]

\* transferSol( destination, amount ) is called.
TransferSol(destination, amount) ==
    /\ tpc = "idle"
    /\ cpc = "idle"
    /\ op' = [name |-> "transferSol", destination |-> destination, amount |-> amount]
    /\ tpc' = "blockhash"
    /\ UNCHANGED <<steps, txSignature, outcome>>
    /\ UNCHANGED <<pollerVars, exceptTransfer>>

\* await this.rpc.getLatestBlockhash().send() settles.
GetLatestBlockhash(response) ==
    /\ tpc = "blockhash"
    /\ steps' = Append(steps, "getLatestBlockhash")
    /\ IF response.ok
       THEN tpc' = "sign" /\ outcome' = outcome
       ELSE tpc' = "done" /\ outcome' = transferFailure(response.error)
    /\ UNCHANGED <<op, txSignature>>
    /\ UNCHANGED <<pollerVars, exceptTransfer>>

\* The message is built and signTransactionMessageWithSigners settles.
SignTransaction(response) ==
    /\ tpc = "sign"
    /\ steps' = Append(steps, "signTransactionMessageWithSigners")
    /\ IF response.ok
       THEN tpc' = "send" /\ txSignature' = response.value /\ outcome' = outcome
       ELSE tpc' = "done" /\ txSignature' = txSignature
            /\ outcome' = transferFailure(response.error)
    /\ UNCHANGED op
    /\ UNCHANGED <<pollerVars, exceptTransfer>>

\* await this.rpc.sendTransaction( signedTransaction ).send() settles; on
\* success confirmTransaction( signature ) is entered.
SendTransaction(response) ==
    /\ tpc = "send"
    /\ steps' = Append(steps, "sendTransaction")
    /\ IF response.ok
       THEN /\ tpc' = "confirm"
            /\ outcome' = outcome
            /\ EnterConfirm(DefaultMaxRetries)
       ELSE /\ tpc' = "done"
            /\ outcome' = transferFailure(response.error)
            /\ UNCHANGED pollerVars
    /\ UNCHANGED <<op, txSignature>>
    /\ UNCHANGED exceptTransfer

\* requestAirdrop( amount ) is called.
RequestAirdrop(amount) ==
    /\ tpc = "idle"
    /\ cpc = "idle"
    /\ op' = [name |-> "requestAirdrop", amount |-> amount]
    /\ tpc' = "airdrop"
    /\ UNCHANGED <<steps, txSignature, outcome>>
    /\ UNCHANGED <<pollerVars, exceptTransfer>>

\* await this.rpc.requestAirdrop( ... ).send() settles; on success
\* confirmTransaction( signature ) is entered, an error is thrown on.
AirdropRequested(response) ==
    /\ tpc = "airdrop"
    /\ steps' = Append(steps, "requestAirdrop")
    /\ IF response.ok
       THEN /\ tpc' = "confirm"
            /\ txSignature' = response.value
            /\ outcome' = outcome
            /\ EnterConfirm(DefaultMaxRetries)
       ELSE /\ tpc' = "done"
            /\ txSignature' = txSignature
            /\ outcome' = Threw(response.error)
            /\ UNCHANGED pollerVars
    /\ UNCHANGED op
    /\ UNCHANGED exceptTransfer

\* One status query of the confirmTransaction call the operation waits in.
ConfirmPoll(response) ==
    /\ tpc = "confirm"
    /\ Poll(response)

\* The pause of that confirmTransaction call.
ConfirmSleep ==
    /\ tpc = "confirm"
    /\ Sleep

\* An operation that reports success however confirmTransaction ended.
resultAfterConfirm_IgnoresConfirm(name, signature, ended, error) ==
    IF name = "transferSol"
    THEN transferSuccess(signature)
    ELSE Returned(signature)

\* What the operation gives its caller once confirmTransaction has ended.
resultAfterConfirm(name, signature, ended, error) ==
    IF name = "transferSol"
    THEN IF ended = "returned"
         THEN transferSuccess(signature)
         ELSE transferFailure(error)
    ELSE IF ended = "returned"
         THEN Returned(signature)
         ELSE Threw(error)

\* An operation that submits the transaction again after a timeout.
AfterConfirm_ResubmitsOnTimeout ==
    /\ tpc = "confirm"
    /\ cpc \in {"returned", "threw"}
    /\ IF /\ op.name = "transferSol"
          /\ cpc = "threw"
          /\ thrown = TimeoutError
          /\ Len(steps) < 4
       THEN /\ tpc' = "send"
            /\ outcome' = outcome
            /\ cpc' = "idle"
            /\ polls' = <<>>
            /\ retries' = 0
            /\ sleeps' = 0
            /\ UNCHANGED <<maxRetries, thrown>>
       ELSE /\ tpc' = "done"
            /\ outcome' = resultAfterConfirm(op.name, txSignature, cpc, thrown)
            /\ UNCHANGED pollerVars
    /\ UNCHANGED <<op, steps, txSignature>>
    /\ UNCHANGED exceptTransfer

\* confirmTransaction has returned or thrown and the operation ends.
AfterConfirm ==
    /\ tpc = "confirm"
    /\ cpc \in {"returned", "threw"}
    /\ outcome' = resultAfterConfirm(op.name, txSignature, cpc, thrown)
    /\ tpc' = "done"
    /\ UNCHANGED <<op, steps, txSignature>>
    /\ UNCHANGED <<pollerVars, exceptTransfer>>

RpcReplies(values, errors) ==
    {[ok |-> TRUE, value |-> v] : v \in values}
        \cup {[ok |-> FALSE, error |-> e] : e \in errors}

NextTransfer ==
    \/ \E destination \in MerchantAddresses, amount \in Lamports :
           TransferSol(destination, amount)
    \/ \E response \in RpcReplies({"blockhash-1"}, BlockhashErrors) :
           GetLatestBlockhash(response)
    \/ \E response \in RpcReplies(TxSignatures, SigningErrors) :
           SignTransaction(response)
    \/ \E response \in RpcReplies({"sent"}, SendErrors) :
           SendTransaction(response)
    \/ \E amount \in Lamports : RequestAirdrop(amount)
    \/ \E response \in RpcReplies(TxSignatures, AirdropErrors) :
           AirdropRequested(response)
    \/ \E response \in ResponsesAt(Len(polls), maxRetries) : ConfirmPoll(response)
    \/ ConfirmSleep
    \/ AfterConfirm

SpecTransfer == Init /\ [][NextTransfer]_vars

\* The client wallet as a whole: one of its operations, or confirmTransaction
\* alone with a small maxRetries and every sequence of responses.
NextWallet ==
    \/ NextTransfer
    \/ tpc = "idle" /\ NextPoller

(***************************************************************************)
(* The merchant agent module: its configuration at load, the asynchronous  *)
(* creation of its Solana wallet, and its three tools.  JavaScript values  *)
(* are records tagged with their typeof.                                   *)
(***************************************************************************)
JsString(s) == [type |-> "string", value |-> s]
JsNumber(n) == [type |-> "number", value |-> n]
JsParams(productName, product_name) ==
    [type |-> "object", productName |-> productName, product_name |-> product_name]

\* ToBoolean( v )
Truthy(v) ==
    CASE v.type = "undefined" -> FALSE
      [] v.type = "string" -> v.value # ""
      [] v.type = "number" -> v.value # 0
      [] OTHER -> TRUE

\* a || b
OrElse(a, b) == IF Truthy(a) THEN a ELSE b

\* params[ key ]; a property a primitive does not have is undefined
Property(params, key) ==
    IF params.type = "object" THEN params[key] ELSE Undefined

\* params.productName || params.product_name || params
productNameOf(params) ==
    OrElse(OrElse(Property(params, "productName"), Property(params, "product_name")),
           params)

\* !productName || typeof productName !== 'string' || productName.trim() === ''
IsEmptyProductName(productName) ==
    \/ ~Truthy(productName)
    \/ productName.type # "string"
    \/ TrimEnd(TrimStart(CodeUnits(productName.value))) = <<>>

EmptyProductNameError == "Product name cannot be empty."
WalletNotInitializedError == "Solana wallet not initialized"

ToolError(message) == [kind |-> "Error", message |-> message]
PaymentRequired(message, reqs) ==
    [kind |-> "x402PaymentRequiredException", message |-> message, requirements |-> reqs]
ToolReturn(value) == [kind |-> "return", value |-> value]

\* process.env.MERCHANT_WALLET_ADDRESS, once the module has loaded
WALLET_ADDRESS ==
    IF env.MERCHANT_WALLET_ADDRESS.type = "string"
    THEN env.MERCHANT_WALLET_ADDRESS.value
    ELSE "undefined"

\* process.env.PAYMENT_NETWORK || "base-sepolia"
NETWORK == OrElse(env.PAYMENT_NETWORK, JsString("base-sepolia")).value

\* process.env.USDC_CONTRACT || "0x036C..."
USDC_CONTRACT ==
    OrElse(env.USDC_CONTRACT, JsString("0x036CbD53842c5426634e7929541eC2318f3dCF7e")).value

\* A price that grows with the length of the product name.
getProductPrice_ByName(productName) == ToString(1000000 * Len(productName))

\* getProductPrice: 1 USDC in atomic units, for every product
getProductPrice(productName) == "1000000"

\* ( parseInt( price ) / 1_000_000 ).toFixed( 6 )
priceUSDC(price) ==
    LET atomic == DigitsValue(CodeUnits(price), 10, 0)
        fraction == ToString(atomic % 1000000)
    IN  ToString(atomic \div 1000000) \o "."
            \o SubSeq("000000", 1, 6 - Len(fraction)) \o fraction

\* The requirements getProductDetailsAndRequestPayment builds.
ethereumPaymentRequirements(productName) ==
    [ scheme            |-> "exact",
      network           |-> NETWORK,
      asset             |-> USDC_CONTRACT,
      payTo             |-> WALLET_ADDRESS,
      maxAmountRequired |-> getProductPrice(productName),
      description       |-> "Payment for: " \o productName,
      resource          |-> "https://example.com/product/" \o productName,
      mimeType          |-> "application/json",
      maxTimeoutSeconds |-> maxTimeoutSeconds,
      extra             |-> [ name    |-> "USDC",
                              version |-> "2",
                              product |-> [ sku     |-> productName \o "_sku",
                                            name    |-> productName,
                                            version |-> "1" ] ] ]

\* The empty-name test as one that lets a blank name through.
getProductDetailsAndRequestPayment_BlankAllowed(params) ==
    LET productName == productNameOf(params)
    IN  IF ~Truthy(productName) \/ productName.type # "string"
        THEN ToolError(EmptyProductNameError)
        ELSE PaymentRequired(
                 "Payment of " \o priceUSDC(getProductPrice(productName.value))
                     \o " USDC required for " \o productName.value,
                 ethereumPaymentRequirements(productName.value))

getProductDetailsAndRequestPayment(params) ==
    LET productName == productNameOf(params)
    IN  IF IsEmptyProductName(productName)
        THEN ToolError(EmptyProductNameError)
        ELSE PaymentRequired(
                 "Payment of " \o priceUSDC(getProductPrice(productName.value))
                     \o " USDC required for " \o productName.value,
                 ethereumPaymentRequirements(productName.value))

getProductDetailsAndRequestSolanaPayment(params) ==
    LET productName == productNameOf(params)
    IN  IF IsEmptyProductName(productName)
        THEN ToolError(EmptyProductNameError)
        ELSE IF ~Truthy(solanaMerchantAddress)
        THEN ToolError(WalletNotInitializedError)
        ELSE PaymentRequired(
                 "Payment of 0.1 SOL required for " \o productName.value,
                 solanaPaymentRequirements(productName.value,
                                           solanaMerchantAddress.value))

\* The message is given as its UTF-16 code units: it ends with a space and
\* U+1F389 (the surrogates D83C DF89), which no string of the model can hold.
checkOrderStatus(params) ==
    ToolReturn([status  |-> "success",
                message |-> CodeUnits("Your order has been confirmed and is being prepared for shipment!")
                                \o <<32, 55356, 57225>>])

Tools ==
    {"getProductDetailsAndRequestPayment",
     "getProductDetailsAndRequestSolanaPayment",
     "checkOrderStatus"}

callTool(tool, params) ==
    CASE tool = "getProductDetailsAndRequestPayment" ->
             getProductDetailsAndRequestPayment(params)
      [] tool = "getProductDetailsAndRequestSolanaPayment" ->
             getProductDetailsAndRequestSolanaPayment(params)
      [] OTHER -> checkOrderStatus(params)

MaxToolCalls == 2

Environments ==
    [ MERCHANT_WALLET_ADDRESS : {Undefined, JsString(""), JsString("0xMerchant")},
      PAYMENT_NETWORK         : {Undefined, JsString("base")},
      USDC_CONTRACT           : {Undefined} ]

ProductNameValues ==
    {Undefined, JsString(""), JsString(" \t"), JsNumber(42),
     JsString("banana"), JsString("apple")}

ProductParams ==
    {JsParams(v, Undefined) : v \in ProductNameValues}
        \cup {JsParams(Undefined, JsString("banana")), JsString("banana")}

\* The arguments the model calls a tool with.
ToolParams(tool) ==
    IF tool = "checkOrderStatus" THEN {JsParams(Undefined, Undefined)} ELSE ProductParams

\* A module load that does not look at MERCHANT_WALLET_ADDRESS.
LoadModule_NoValidation(e) ==
    /\ mpc = "unloaded"
    /\ env' = e
    /\ mpc' = "loaded"
    /\ walletInit' = "pending"
    /\ UNCHANGED <<solanaMerchantAddress, toolCalls>>
    /\ UNCHANGED exceptMerchant

\* The module is loaded in a process whose environment is e: the check of
\* MERCHANT_WALLET_ADDRESS, the constants, the start of the wallet creation,
\* the tool functions and the agent with its tools.
LoadModule(e) ==
    /\ mpc = "unloaded"
    /\ env' = e
    /\ IF ~Truthy(e.MERCHANT_WALLET_ADDRESS)
       THEN mpc' = "aborted" /\ walletInit' = "none"
       ELSE mpc' = "loaded" /\ walletInit' = "pending"
    /\ UNCHANGED <<solanaMerchantAddress, toolCalls>>
    /\ UNCHANGED exceptMerchant

\* SolanaWallet.create resolves and the address is stored.
WalletCreated(walletAddress) ==
    /\ mpc = "loaded"
    /\ walletInit = "pending"
    /\ solanaMerchantAddress' = JsString(walletAddress)
    /\ walletInit' = "done"
    /\ UNCHANGED <<env, mpc, toolCalls>>
    /\ UNCHANGED exceptMerchant

\* SolanaWallet.create rejects; nothing handles the rejection, and the
\* runtime's unhandled-rejection mode decides whether the process goes on.
WalletCreateFails(goesOn) ==
    /\ mpc = "loaded"
    /\ walletInit = "pending"
    /\ walletInit' = "failed"
    /\ mpc' = IF goesOn THEN "loaded" ELSE "crashed"
    /\ UNCHANGED <<env, solanaMerchantAddress, toolCalls>>
    /\ UNCHANGED exceptMerchant

\* The agent runtime calls one of the registered tools.
CallTool(tool, params) ==
    /\ mpc = "loaded"
    /\ Len(toolCalls) < MaxToolCalls
    /\ toolCalls' = Append(toolCalls,
                           [ tool       |-> tool,
                             params     |-> params,
                             walletInit |-> walletInit,
                             result     |-> callTool(tool, params) ])
    /\ UNCHANGED <<env, mpc, walletInit, solanaMerchantAddress>>
    /\ UNCHANGED exceptMerchant

NextMerchant ==
    \/ \E e \in Environments : LoadModule(e)
    \/ \E walletAddress \in MerchantAddresses : WalletCreated(walletAddress)
    \/ \E goesOn \in BOOLEAN : WalletCreateFails(goesOn)
    \/ \E tool \in Tools : \E params \in ToolParams(tool) : CallTool(tool, params)

SpecMerchant == Init /\ [][NextMerchant]_vars

(***************************************************************************)
(* The merchant's on-chain verification: SolanaWallet.verifyTransaction    *)
(* looks a transaction up on the ledger, and                               *)
(* SolanaPaymentExecutor.verifyOnChainTransaction turns the lookup into a  *)
(* verification result.                                                    *)
(***************************************************************************)
\* Transactions the ledger may hold under that signature: the price or one
\* lamport, to either merchant address, with its block time or with none
\* available (0).
LedgerTransactions ==
    [ amount    : {100000000, 1},
      from      : ClientAddresses,
      to        : MerchantAddresses,
      blockTime : {1700000000, 0} ]

\* What rpc.getTransaction( signature ).send() gives for the ledger's entry.
getTransaction(entry, rpcOk) ==
    IF ~rpcOk THEN [kind |-> "rpcError", message |-> "fetch failed"]
    ELSE IF entry = NoValue THEN [kind |-> "null"]
    ELSE [kind |-> "value", value |-> entry]

\* SolanaWallet.verifyTransaction, from the response of getTransaction
verifyTransaction(response) ==
    IF response.kind = "rpcError" THEN [confirmed |-> FALSE]
    ELSE IF response.kind = "null" THEN [confirmed |-> FALSE]
    ELSE [ confirmed |-> TRUE,
           blockTime |-> IF response.value.blockTime = 0
                         THEN Undefined             \* value.blockTime || undefined
                         ELSE response.value.blockTime ]

\* verification[ key ]; a property the object does not have is undefined
Field(verification, key) ==
    IF key \in DOMAIN verification THEN verification[key] ELSE Undefined

NotConfirmedError == "Transaction not found or not confirmed"

\* A verification that accepts only the expected amount and sender.
verifyOnChainTransaction_ChecksExpected(signature, expectedAmount, expectedFrom, response) ==
    IF response.kind # "value" THEN Rejected(NotConfirmedError)
    ELSE IF response.value.amount # expectedAmount THEN Rejected(NotConfirmedError)
    ELSE IF expectedFrom # Undefined /\ expectedFrom.value # response.value.from
    THEN Rejected(NotConfirmedError)
    ELSE [ isValid              |-> TRUE,
           transactionSignature |-> signature,
           amount               |-> response.value.amount,
           from                 |-> response.value.from,
           to                   |-> response.value.to ]

\* SolanaPaymentExecutor.verifyOnChainTransaction
verifyOnChainTransaction(signature, expectedAmount, expectedFrom, response) ==
    LET verification == verifyTransaction(response)
    IN  IF ~verification.confirmed
        THEN Rejected(NotConfirmedError)
        ELSE [ isValid              |-> TRUE,
               transactionSignature |-> signature,
               amount               |-> Field(verification, "amount"),
               from                 |-> Field(verification, "from"),
               to                   |-> Field(verification, "to") ]

MaxLookups == 2

\* The ledger confirms a transaction with the given signature.
ConfirmOnLedger(signature, tx) ==
    /\ ledger[signature] = NoValue
    /\ ledger' = [ledger EXCEPT ![signature] = tx]
    /\ UNCHANGED <<lookupsInFlight, onChainLog>>
    /\ UNCHANGED exceptChain

\* The merchant calls verifyOnChainTransaction: the call sends getTransaction,
\* which the node answers from the ledger as it is now, and waits at
\* await this.wallet.verifyTransaction( txSignature ).
VerifyOnChainTransaction(signature, expectedAmount, expectedFrom, rpcOk) ==
    /\ Len(onChainLog) + Len(lookupsInFlight) < MaxLookups
    /\ lookupsInFlight' = Append(lookupsInFlight,
               [ txSignature    |-> signature,
                 expectedAmount |-> expectedAmount,
                 expectedFrom   |-> expectedFrom,
                 requests       |-> <<"getTransaction">>,
                 response       |-> getTransaction(ledger[signature], rpcOk) ])
    /\ UNCHANGED <<ledger, onChainLog>>
    /\ UNCHANGED exceptChain

\* The answer to the getTransaction of the k-th waiting call arrives:
\* verifyTransaction settles and verifyOnChainTransaction returns its result.
VerifyTransactionSettles(k) ==
    /\ k \in 1..Len(lookupsInFlight)
    /\ LET call == lookupsInFlight[k]
       IN  onChainLog' = Append(onChainLog,
               [ txSignature    |-> call.txSignature,
                 expectedAmount |-> call.expectedAmount,
                 expectedFrom   |-> call.expectedFrom,
                 requests       |-> call.requests,
                 response       |-> call.response,
                 result         |-> verifyOnChainTransaction(call.txSignature,
                                        call.expectedAmount, call.expectedFrom,
                                        call.response) ])
    /\ lookupsInFlight' = [j \in 1..(Len(lookupsInFlight) - 1) |->
                              lookupsInFlight[IF j < k THEN j ELSE j + 1]]
    /\ UNCHANGED ledger
    /\ UNCHANGED exceptChain

\* The payer presents, as its proof, the signature of a transfer.
PresentTransferProof(from, signature) ==
    /\ requirements # NoValue
    /\ payload = NoValue
    /\ payload' = [ from      |-> from,
                    to        |-> requirements.payTo,
                    amount    |-> requirements.maxAmountRequired,
                    signature |-> signature,
                    timestamp |-> now,
                    network   |-> requirements.network ]
    /\ UNCHANGED <<requirements, issuedAt, verifyLog, now>>
    /\ UNCHANGED exceptVerifier

NextOnChain ==
    \/ \E signature \in TxReferences, tx \in LedgerTransactions :
           ConfirmOnLedger(signature, tx)
    \/ \E signature \in TxReferences, expectedAmount \in Prices,
          expectedFrom \in {Undefined} \cup {JsString(a) : a \in ClientAddresses},
          rpcOk \in BOOLEAN :
           VerifyOnChainTransaction(signature, expectedAmount, expectedFrom, rpcOk)
    \/ \E k \in 1..MaxLookups : VerifyTransactionSettles(k)
    \/ RequestSolanaPayment("banana", "M1")
    \/ \E from \in ClientAddresses, signature \in TxReferences :
           PresentTransferProof(from, signature)
    \/ VerifyPayment("order-1")

SpecOnChain == Init /\ [][NextOnChain]_vars

(***************************************************************************)
(* The client agent: its state object and its tools.  A tool call runs up  *)
(* to its next await in one step; calls may overlap at their awaits.  A    *)
(* call into a wallet is followed here from the call to its return, which  *)
(* ranges over the ways the wallet's operation can end.                    *)
(***************************************************************************)
MaxClientCalls == 3

\* The first entry of paymentRequirements.accepts in the merchant's answer.
EthereumOption ==
    [ scheme            |-> "exact",
      network           |-> "base-sepolia",
      asset             |-> "0x036CbD53842c5426634e7929541eC2318f3dCF7e",
      payTo             |-> "0xMerchant",
      maxAmountRequired |-> "1000000",
      extra             |-> [name |-> "USDC", product |-> [name |-> "banana"]] ]

SolanaOption == solanaPaymentRequirements("banana", "M1")

\* Responses of POST /run: an HTTP error, a text answer, payment required.
RunResponses ==
    {[kind |-> "serverError"], [kind |-> "text"]}
        \cup {[kind |-> "paymentRequired", option |-> o] : o \in {EthereumOption, SolanaOption}}

\* How a transfer can end: confirmed; refused before anything reached the
\* ledger; submitted and then not seen confirmed in time.
TransferEndings == {"confirmed", "rejected", "timeout"}

\* state.pendingPayment as sendMessageToMerchant sets it
newPendingPayment(option, invocationId) ==
    [ type         |-> "object",
      requirements |-> [accepts |-> <<option>>],
      taskId       |-> invocationId,
      contextId    |-> invocationId,
      blockchain   |-> "ethereum" ]

\* A tool call that has run to its first await (or to its end): where it
\* stands, the session id it holds, the pending payment it read at its start,
\* and the transfer it made (an index into transfers, 0 for none).
newCall(tool, pc, session, payment, transfer) ==
    [tool |-> tool, pc |-> pc, session |-> session, payment |-> payment,
     transfer |-> transfer]

\* The call's position and result after a step.
CallAt(i, pc) == calls' = [calls EXCEPT ![i].pc = pc]

\* sendMessageToMerchant is called: ensureSession returns the session id the
\* state holds, or requests a new session.
SendMessage ==
    /\ Len(calls) < MaxClientCalls
    /\ calls' = Append(calls,
                       newCall("sendMessageToMerchant",
                               IF Truthy(sessionId) THEN "awaitRun" ELSE "awaitSession",
                               sessionId, Undefined, 0))
    /\ sessionRequests' = IF Truthy(sessionId) THEN sessionRequests ELSE sessionRequests + 1
    /\ UNCHANGED <<sessionId, pendingPayment, sessions, transfers, notifications, offers>>
    /\ UNCHANGED exceptClient

\* The response to the session request arrives.
SessionResponse(i, ok) ==
    /\ i \in 1..Len(calls)
    /\ calls[i].pc = "awaitSession"
    /\ IF ok
       THEN /\ sessions' = sessions + 1
            /\ sessionId' = JsString("session-" \o ToString(sessions + 1))
            /\ calls' = [calls EXCEPT ![i].pc = "awaitRun", ![i].session = sessionId']
       ELSE /\ calls' = [calls EXCEPT ![i].pc = "failedToContact"]
            /\ UNCHANGED <<sessions, sessionId>>
    /\ UNCHANGED <<pendingPayment, sessionRequests, transfers, notifications, offers>>
    /\ UNCHANGED exceptClient

\* The response to POST /run arrives and is read.
RunResponse(i, response) ==
    /\ i \in 1..Len(calls)
    /\ calls[i].pc = "awaitRun"
    /\ IF response.kind = "paymentRequired"
       THEN /\ offers' = offers + 1
            /\ pendingPayment' = newPendingPayment(response.option,
                                                   "inv-" \o ToString(offers + 1))
            /\ CallAt(i, "askedToProceed")
       ELSE /\ UNCHANGED <<offers, pendingPayment>>
            /\ CallAt(i, IF response.kind = "text" THEN "merchantSays" ELSE "serverError")
    /\ UNCHANGED <<sessionId, sessions, sessionRequests, transfers, notifications>>
    /\ UNCHANGED exceptClient

\* A transfer the client has started: the call that made it, the pending
\* payment it is for, and, once it has ended, how it ended and how many tool
\* calls had been started by then.
newTransfer(i, chain, payment) ==
    [ call    |-> i,
      ended   |-> 0,
      chain   |-> chain,
      payment |-> payment.taskId,
      to      |-> payment.requirements.accepts[1].payTo,
      amount  |-> BigInt(payment.requirements.accepts[1].maxAmountRequired).value,
      status  |-> "inFlight" ]

\* A cancelPayment that answers without clearing the pending payment.
CancelPayment_KeepsPending ==
    /\ Len(calls) < MaxClientCalls
    /\ calls' = Append(calls,
                       IF ~Truthy(pendingPayment)
                       THEN newCall("cancelPayment", "noPendingToCancel", Undefined, Undefined, 0)
                       ELSE newCall("cancelPayment", "cancelled", Undefined, pendingPayment, 0))
    /\ UNCHANGED <<sessionId, pendingPayment, sessions, sessionRequests, transfers,
                   notifications, offers>>
    /\ UNCHANGED exceptClient

\* confirmPayment is called: without a pending payment it returns at once;
\* otherwise it takes the first payment option and the blockchain of the
\* pending payment and starts processEthereumPayment (up to the await of
\* signPayment) or processSolanaPayment (up to the await of transferSol).
ConfirmPayment ==
    /\ Len(calls) < MaxClientCalls
    /\ LET i == Len(calls) + 1
           blockchain == IF Truthy(pendingPayment) THEN pendingPayment.blockchain ELSE "none"
           amount == IF Truthy(pendingPayment)
                     THEN BigInt(pendingPayment.requirements.accepts[1].maxAmountRequired)
                     ELSE Threw("none")
       IN  IF ~Truthy(pendingPayment)
           THEN /\ calls' = Append(calls,
                        newCall("confirmPayment", "noPending", Undefined, Undefined, 0))
                /\ UNCHANGED transfers
           ELSE IF blockchain \notin {"ethereum", "solana"}
           THEN /\ calls' = Append(calls,
                        newCall("confirmPayment", "unsupported", Undefined, pendingPayment, 0))
                /\ UNCHANGED transfers
           ELSE IF ~amount.ok
           THEN /\ calls' = Append(calls,
                        newCall("confirmPayment", "processingFailed", Undefined, pendingPayment, 0))
                /\ UNCHANGED transfers
           ELSE IF blockchain = "ethereum"
           THEN /\ calls' = Append(calls,
                        newCall("confirmPayment", "awaitSign", Undefined, pendingPayment, 0))
                /\ UNCHANGED transfers
           ELSE /\ transfers' = Append(transfers, newTransfer(i, "solana", pendingPayment))
                /\ calls' = Append(calls,
                        newCall("confirmPayment", "awaitTransfer", Undefined, pendingPayment,
                                Len(transfers) + 1))
    /\ UNCHANGED <<sessionId, pendingPayment, sessions, sessionRequests, notifications, offers>>
    /\ UNCHANGED exceptClient

\* processEthereumPayment: signPayment settles; executePayment is called with
\* the option confirmPayment read.
SignResponse(i, ok) ==
    /\ i \in 1..Len(calls)
    /\ calls[i].pc = "awaitSign"
    /\ IF ok
       THEN /\ transfers' = Append(transfers, newTransfer(i, "ethereum", calls[i].payment))
            /\ calls' = [calls EXCEPT ![i].pc = "awaitTransfer",
                                      ![i].transfer = Len(transfers) + 1]
       ELSE /\ CallAt(i, "processingFailed")
            /\ UNCHANGED transfers
    /\ UNCHANGED <<sessionId, pendingPayment, sessions, sessionRequests, notifications, offers>>
    /\ UNCHANGED exceptClient

\* executePayment or transferSol settles.  After a successful Ethereum
\* transfer notifyMerchant is called: it reads state.pendingPayment inside its
\* try, so without a pending payment it sends nothing and returns; either way
\* processEthereumPayment waits for it and goes on in a later step.
TransferResponse(i, ending) ==
    /\ i \in 1..Len(calls)
    /\ calls[i].pc = "awaitTransfer"
    /\ transfers' = [transfers EXCEPT ![calls[i].transfer].status = ending,
                                      ![calls[i].transfer].ended = Len(calls)]
    /\ IF ending # "confirmed"
       THEN /\ CallAt(i, "transferFailed")
            /\ UNCHANGED <<pendingPayment, notifications>>
       ELSE IF transfers[calls[i].transfer].chain = "ethereum"
       THEN /\ notifications' = IF Truthy(pendingPayment) THEN notifications + 1
                                ELSE notifications
            /\ CallAt(i, "awaitNotify")
            /\ UNCHANGED pendingPayment
       ELSE /\ pendingPayment' = Undefined
            /\ CallAt(i, "completed")
            /\ UNCHANGED notifications
    /\ UNCHANGED <<sessionId, sessions, sessionRequests, offers>>
    /\ UNCHANGED exceptClient

\* notifyMerchant returns, after its request settled, whichever way, or after
\* it sent none; the pending payment is cleared and the call returns its
\* receipt.
NotifyResponse(i, ok) ==
    /\ i \in 1..Len(calls)
    /\ calls[i].pc = "awaitNotify"
    /\ pendingPayment' = Undefined
    /\ CallAt(i, "completed")
    /\ UNCHANGED <<sessionId, sessions, sessionRequests, transfers, notifications, offers>>
    /\ UNCHANGED exceptClient

\* cancelPayment is called.
CancelPayment ==
    /\ Len(calls) < MaxClientCalls
    /\ calls' = Append(calls,
                       IF ~Truthy(pendingPayment)
                       THEN newCall("cancelPayment", "noPendingToCancel", Undefined, Undefined, 0)
                       ELSE newCall("cancelPayment", "cancelled", Undefined, pendingPayment, 0))
    /\ pendingPayment' = Undefined
    /\ UNCHANGED <<sessionId, sessions, sessionRequests, transfers, notifications, offers>>
    /\ UNCHANGED exceptClient

\* transferSolana is called: without a recipient or an amount it returns at
\* once; otherwise it calls transferSol for them, whatever payment is pending.
\* BigInt of a Number that is an integer is that integer.
TransferSolana(recipient, amount) ==
    /\ Len(calls) < MaxClientCalls
    /\ IF ~Truthy(recipient) \/ ~Truthy(amount)
       THEN /\ calls' = Append(calls,
                    newCall("transferSolana", "missingParameters", Undefined, Undefined, 0))
            /\ UNCHANGED transfers
       ELSE /\ transfers' = Append(transfers,
                    [ call    |-> Len(calls) + 1,
                      ended   |-> 0,
                      chain   |-> "solana",
                      payment |-> "",
                      to      |-> recipient.value,
                      amount  |-> amount.value,
                      status  |-> "inFlight" ])
            /\ calls' = Append(calls,
                    newCall("transferSolana", "awaitTransferSol", Undefined, Undefined,
                            Len(transfers) + 1))
    /\ UNCHANGED <<sessionId, pendingPayment, sessions, sessionRequests, notifications, offers>>
    /\ UNCHANGED exceptClient

\* transferSol settles for transferSolana, which returns its message.
TransferSolanaResponse(i, ending) ==
    /\ i \in 1..Len(calls)
    /\ calls[i].pc = "awaitTransferSol"
    /\ transfers' = [transfers EXCEPT ![calls[i].transfer].status = ending,
                                      ![calls[i].transfer].ended = Len(calls)]
    /\ CallAt(i, IF ending = "confirmed" THEN "transferSuccessful" ELSE "transferFailed")
    /\ UNCHANGED <<sessionId, pendingPayment, sessions, sessionRequests, notifications, offers>>
    /\ UNCHANGED exceptClient

\* requestSolanaAirdrop is called: it asks the wallet for params.amount, or
\* for two SOL.
RequestSolanaAirdrop(amount) ==
    /\ Len(calls) < MaxClientCalls
    /\ calls' = Append(calls,
                       [ tool |-> "requestSolanaAirdrop", pc |-> "awaitAirdrop",
                         session |-> Undefined, payment |-> Undefined, transfer |-> 0,
                         amount |-> OrElse(amount, JsNumber(2000000000)).value ])
    /\ UNCHANGED <<sessionId, pendingPayment, sessions, sessionRequests, transfers,
                   notifications, offers>>
    /\ UNCHANGED exceptClient

\* requestAirdrop settles and requestSolanaAirdrop returns its message.
AirdropResponse(i, ok) ==
    /\ i \in 1..Len(calls)
    /\ calls[i].pc = "awaitAirdrop"
    /\ CallAt(i, IF ok THEN "airdropRequested" ELSE "airdropFailed")
    /\ UNCHANGED <<sessionId, pendingPayment, sessions, sessionRequests, transfers,
                   notifications, offers>>
    /\ UNCHANGED exceptClient

NextClient ==
    \/ SendMessage
    \/ \E i \in 1..MaxClientCalls, ok \in BOOLEAN : SessionResponse(i, ok)
    \/ \E i \in 1..MaxClientCalls, response \in RunResponses : RunResponse(i, response)
    \/ ConfirmPayment
    \/ \E i \in 1..MaxClientCalls, ok \in BOOLEAN : SignResponse(i, ok)
    \/ \E i \in 1..MaxClientCalls, ending \in TransferEndings : TransferResponse(i, ending)
    \/ \E i \in 1..MaxClientCalls, ok \in BOOLEAN : NotifyResponse(i, ok)
    \/ CancelPayment
    \/ \E recipient \in {JsString("M1"), Undefined},
          amount \in {JsNumber(100000000), Undefined} :
            TransferSolana(recipient, amount)
    \/ \E i \in 1..MaxClientCalls, ending \in TransferEndings :
            TransferSolanaResponse(i, ending)
    \/ \E amount \in {JsNumber(100000000), Undefined} : RequestSolanaAirdrop(amount)
    \/ \E i \in 1..MaxClientCalls, ok \in BOOLEAN : AirdropResponse(i, ok)

SpecClient == Init /\ [][NextClient]_vars

(***************************************************************************)
(* The client agent over its Solana wallet.  transferSolana and            *)
(* requestSolanaAirdrop call transferSol and requestAirdrop of the wallet   *)
(* the agent created; the call then goes through the wallet's requests and *)
(* confirmTransaction, other tool calls running at its awaits, and the     *)
(* tool returns what the wallet gave it.  The wallet variables follow one  *)
(* operation, so one tool call of a behaviour reaches the wallet.          *)
(* pendingPayment.blockchain is never "solana" (sendMessageToMerchant      *)
(* writes "ethereum"), so confirmPayment does not reach the wallet.        *)
(***************************************************************************)
MaxAgentCalls == 2

\* transferSolana is called with both parameters and calls transferSol, which
\* runs up to the await of getLatestBlockhash.
TransferSolanaOverWallet(recipient, amount) ==
    /\ Truthy(recipient) /\ Truthy(amount)
    /\ Len(calls) < MaxClientCalls
    /\ tpc = "idle"
    /\ cpc = "idle"
    /\ transfers' = Append(transfers,
            [ call    |-> Len(calls) + 1,
              ended   |-> 0,
              chain   |-> "solana",
              payment |-> "",
              to      |-> recipient.value,
              amount  |-> amount.value,
              status  |-> "inFlight" ])
    /\ calls' = Append(calls,
            newCall("transferSolana", "awaitTransferSol", Undefined, Undefined,
                    Len(transfers) + 1))
    /\ op' = [name |-> "transferSol", destination |-> recipient.value,
              amount |-> amount.value]
    /\ tpc' = "blockhash"
    /\ UNCHANGED <<sessionId, pendingPayment, sessions, sessionRequests, notifications, offers>>
    /\ UNCHANGED <<steps, txSignature, outcome>>
    /\ UNCHANGED <<pollerVars, verifierVars, merchantVars, chainVars, flowVars>>

\* requestSolanaAirdrop is called and calls requestAirdrop, which runs up to
\* the await of the airdrop request.
RequestSolanaAirdropOverWallet(amount) ==
    /\ Len(calls) < MaxClientCalls
    /\ tpc = "idle"
    /\ cpc = "idle"
    /\ calls' = Append(calls,
                       [ tool |-> "requestSolanaAirdrop", pc |-> "awaitAirdrop",
                         session |-> Undefined, payment |-> Undefined, transfer |-> 0,
                         amount |-> OrElse(amount, JsNumber(2000000000)).value ])
    /\ op' = [name |-> "requestAirdrop",
              amount |-> OrElse(amount, JsNumber(2000000000)).value]
    /\ tpc' = "airdrop"
    /\ UNCHANGED <<sessionId, pendingPayment, sessions, sessionRequests, transfers,
                   notifications, offers>>
    /\ UNCHANGED <<steps, txSignature, outcome>>
    /\ UNCHANGED <<pollerVars, verifierVars, merchantVars, chainVars, flowVars>>

\* How the transfer of the wallet's operation ended, as the agent's record of
\* transfers names it: confirmed; refused before the transaction was
\* submitted; submitted and not seen confirmed.
walletEnding ==
    IF outcome.success THEN "confirmed"
    ELSE IF cpc = "idle" THEN "rejected"
    ELSE "timeout"

NextAgent ==
    \/ Len(calls) < MaxAgentCalls /\ SendMessage
    \/ \E i \in 1..MaxAgentCalls, ok \in BOOLEAN : SessionResponse(i, ok)
    \/ \E i \in 1..MaxAgentCalls, response \in RunResponses : RunResponse(i, response)
    \/ Len(calls) < MaxAgentCalls /\ ConfirmPayment
    \/ \E i \in 1..MaxAgentCalls, ok \in BOOLEAN : SignResponse(i, ok)
    \/ \E i \in 1..MaxAgentCalls, ending \in TransferEndings : TransferResponse(i, ending)
    \/ \E i \in 1..MaxAgentCalls, ok \in BOOLEAN : NotifyResponse(i, ok)
    \/ Len(calls) < MaxAgentCalls /\ CancelPayment
    \/ /\ Len(calls) < MaxAgentCalls
       /\ \E recipient \in {JsString("M1"), Undefined},
             amount \in {JsNumber(100000000), Undefined} :
               \/ (~Truthy(recipient) \/ ~Truthy(amount)) /\ TransferSolana(recipient, amount)
               \/ TransferSolanaOverWallet(recipient, amount)
    \/ /\ Len(calls) < MaxAgentCalls
       /\ \E amount \in {JsNumber(100000000), Undefined} :
               RequestSolanaAirdropOverWallet(amount)
    \/ /\ calls # <<>>
       /\ \/ \E response \in RpcReplies({"blockhash-1"}, BlockhashErrors) :
                 GetLatestBlockhash(response)
          \/ \E response \in RpcReplies(TxSignatures, SigningErrors) :
                 SignTransaction(response)
          \/ \E response \in RpcReplies({"sent"}, SendErrors) :
                 SendTransaction(response)
          \/ \E response \in RpcReplies(TxSignatures, AirdropErrors) :
                 AirdropRequested(response)
          \/ \E response \in LaterResponses : ConfirmPoll(response)
          \/ ConfirmSleep
          \/ AfterConfirm
    \/ \E i \in 1..MaxAgentCalls :
           /\ tpc = "done"
           /\ op.name = "transferSol"
           /\ TransferSolanaResponse(i, walletEnding)
    \/ \E i \in 1..MaxAgentCalls :
           /\ tpc = "done"
           /\ op.name = "requestAirdrop"
           /\ AirdropResponse(i, outcome.ok)

(***************************************************************************)
(* The operations that make requests.  A behaviour follows one of: the     *)
(* wallet called directly (transferSol, requestAirdrop, confirmTransaction *)
(* on its own); the merchant's verification of a payment and of a          *)
(* transaction on the ledger; the client agent with its wallet.  The       *)
(* merchant's executor and the client agent are objects of different       *)
(* processes and share no state.                                           *)
(***************************************************************************)
NextOperations ==
    LET walletAtRest == tpc = "idle" /\ cpc = "idle" /\ polls = <<>> /\ steps = <<>>
        merchantAtRest ==
            /\ requirements = NoValue
            /\ verifyLog = <<>>
            /\ onChainLog = <<>>
            /\ lookupsInFlight = <<>>
            /\ \A signature \in TxReferences : ledger[signature] = NoValue
        agentAtRest == calls = <<>>
    IN  \/ merchantAtRest /\ agentAtRest /\ NextWallet
        \/ walletAtRest /\ agentAtRest /\ NextOnChain
        \/ merchantAtRest /\ (walletAtRest \/ ~agentAtRest) /\ NextAgent

SpecOperations == Init /\ [][NextOperations]_vars

(***************************************************************************)
(* Properties of verifyPayment.                                            *)
(***************************************************************************)
Calls == { verifyLog[i] : i \in 1..Len(verifyLog) }

IsResult(res) == "isValid" \in DOMAIN res
IsAccepted(res) == IsResult(res) /\ res.isValid
HasError(res) == "error" \in DOMAIN res

AmountsConvert(p, r) == BigInt(p.amount).ok /\ BigInt(r.maxAmountRequired).ok
PaidAmount(p) == BigInt(p.amount).value
RequiredAmount(r) == BigInt(r.maxAmountRequired).value
ConversionError(p, r) ==
    IF ~BigInt(p.amount).ok THEN BigInt(p.amount).message
    ELSE BigInt(r.maxAmountRequired).message

RecipientOk(p, r) == p.to = r.payTo
AmountOk(p, r) ==
    /\ AmountsConvert(p, r)
    /\ r.scheme = "exact" => PaidAmount(p) = RequiredAmount(r)
    /\ r.scheme = "up-to" => PaidAmount(p) <= RequiredAmount(r)
NetworkOk(p, r) == p.network = r.network
ProofOk(p) == Len(p.signature) > 0 /\ Len(p.signature) >= 64

\* The four local checks in their documented order, and what each reports.
CheckHolds(k, p, r) ==
    CASE k = 1 -> RecipientOk(p, r)
      [] k = 2 -> AmountOk(p, r)
      [] k = 3 -> NetworkOk(p, r)
      [] k = 4 -> ProofOk(p)

CheckRejection(k, p, r) ==
    CASE k = 1 -> WrongAddressError(p, r)
      [] k = 2 -> IF ~AmountsConvert(p, r) THEN ConversionError(p, r)
                  ELSE IF r.scheme = "exact"
                  THEN IncorrectAmountError(PaidAmount(p), RequiredAmount(r))
                  ELSE ExceedsMaximumError(PaidAmount(p), RequiredAmount(r))
      [] k = 3 -> WrongNetworkError(p, r)
      [] k = 4 -> InvalidSignatureError

FailingChecks(p, r) == { k \in 1..4 : ~CheckHolds(k, p, r) }
EarliestFailing(p, r) ==
    CHOOSE k \in FailingChecks(p, r) : \A j \in FailingChecks(p, r) : k <= j

IsNetworkScenario(p, r) ==
    /\ r.scheme = "exact" /\ r.payTo = "M1"
    /\ r.maxAmountRequired = "100000000" /\ r.network = "net-A"
    /\ p.to = "M1" /\ p.amount = "100000000"
    /\ p.network = "net-B" /\ p.signature = ShortProof

\* C1: every rejection verifyPayment reports is that of the earliest failing
\* check in the order recipient, amount, network, proof; a wrong recipient is
\* reported as such whatever else is wrong, and the payload of the scenario
\* (right recipient and amount, other network, proof "abc") is rejected as a
\* network mismatch.
C1_EarliestFailingCheckReported ==
    \A e \in Calls :
        /\ FailingChecks(e.payload, e.requirements) # {} =>
              e.result = Rejected(CheckRejection(
                            EarliestFailing(e.payload, e.requirements),
                            e.payload, e.requirements))
        /\ ~RecipientOk(e.payload, e.requirements) =>
              e.result = Rejected(WrongAddressError(e.payload, e.requirements))
        /\ IsNetworkScenario(e.payload, e.requirements) =>
              e.result = Rejected("Wrong network. Expected: net-A, Got: net-B")

C1_Witness ==
    \E e \in Calls :
        /\ IsNetworkScenario(e.payload, e.requirements)
        /\ Cardinality(FailingChecks(e.payload, e.requirements)) = 2
        /\ ~e.result.isValid

\* C2 as claimed: under scheme exact a payload whose amount differs from the
\* required amount is rejected with the amount-mismatch reason, whatever its
\* recipient and network.
C2_Original ==
    \A e \in Calls :
        ( /\ e.requirements.scheme = "exact"
          /\ AmountsConvert(e.payload, e.requirements)
          /\ PaidAmount(e.payload) # RequiredAmount(e.requirements) )
        => e.result = Rejected(IncorrectAmountError(PaidAmount(e.payload),
                                                    RequiredAmount(e.requirements)))

\* C2 amended: under scheme exact a payload whose amount differs from the
\* required amount is always rejected, and with the amount-mismatch reason
\* whenever its recipient is the required one, whatever its network.
C2_ExactMismatchRejected ==
    \A e \in Calls :
        ( /\ e.requirements.scheme = "exact"
          /\ AmountsConvert(e.payload, e.requirements)
          /\ PaidAmount(e.payload) # RequiredAmount(e.requirements) )
        => /\ ~IsAccepted(e.result)
           /\ RecipientOk(e.payload, e.requirements) =>
                e.result = Rejected(IncorrectAmountError(PaidAmount(e.payload),
                                                         RequiredAmount(e.requirements)))

C2_Witness ==
    \E e \in Calls :
        /\ e.requirements.scheme = "exact"
        /\ RecipientOk(e.payload, e.requirements)
        /\ ~NetworkOk(e.payload, e.requirements)
        /\ AmountsConvert(e.payload, e.requirements)
        /\ PaidAmount(e.payload) < RequiredAmount(e.requirements)
        /\ HasError(e.result)

\* C3 as claimed: under scheme up-to a payload with amount <= required and
\* otherwise correct fields is accepted, and every payload with amount >
\* required is rejected with the amount-exceeds-maximum reason.
C3_Original ==
    \A e \in Calls :
        ( e.requirements.scheme = "up-to" /\ AmountsConvert(e.payload, e.requirements) )
        => /\ ( /\ PaidAmount(e.payload) <= RequiredAmount(e.requirements)
                /\ RecipientOk(e.payload, e.requirements)
                /\ NetworkOk(e.payload, e.requirements)
                /\ ProofOk(e.payload) ) => IsAccepted(e.result)
           /\ PaidAmount(e.payload) > RequiredAmount(e.requirements) =>
                e.result = Rejected(ExceedsMaximumError(PaidAmount(e.payload),
                                                        RequiredAmount(e.requirements)))

\* C3 amended: under scheme up-to a payload with amount <= required and
\* otherwise correct fields is accepted; a payload with amount > required is
\* always rejected, with the amount-exceeds-maximum reason whenever its
\* recipient is the required one.
C3_UpToAmountBound ==
    \A e \in Calls :
        ( e.requirements.scheme = "up-to" /\ AmountsConvert(e.payload, e.requirements) )
        => /\ ( /\ PaidAmount(e.payload) <= RequiredAmount(e.requirements)
                /\ RecipientOk(e.payload, e.requirements)
                /\ NetworkOk(e.payload, e.requirements)
                /\ ProofOk(e.payload) ) => IsAccepted(e.result)
           /\ PaidAmount(e.payload) > RequiredAmount(e.requirements) =>
                /\ ~IsAccepted(e.result)
                /\ RecipientOk(e.payload, e.requirements) =>
                     e.result = Rejected(ExceedsMaximumError(PaidAmount(e.payload),
                                                             RequiredAmount(e.requirements)))

C3_Witness ==
    \E e \in Calls :
        /\ e.requirements.scheme = "up-to"
        /\ AmountsConvert(e.payload, e.requirements)
        /\ PaidAmount(e.payload) = RequiredAmount(e.requirements)
        /\ IsAccepted(e.result)

\* C4: an accepted result means every local check holds: same recipient, the
\* amount satisfies the scheme, same network, proof of at least 64 characters.
C4_AcceptedImpliesAllChecks ==
    \A e \in Calls :
        IsAccepted(e.result) =>
            /\ e.payload.to = e.requirements.payTo
            /\ AmountsConvert(e.payload, e.requirements)
            /\ e.requirements.scheme = "exact" =>
                    PaidAmount(e.payload) = RequiredAmount(e.requirements)
            /\ e.requirements.scheme = "up-to" =>
                    ~(PaidAmount(e.payload) > RequiredAmount(e.requirements))
            /\ e.payload.network = e.requirements.network
            /\ e.payload.signature # ""
            /\ Len(e.payload.signature) >= 64

C4_Witness ==
    \E e \in Calls :
        /\ IsAccepted(e.result)
        /\ e.requirements.scheme = "up-to"
        /\ PaidAmount(e.payload) < RequiredAmount(e.requirements)
        /\ Len(e.payload.signature) = 64

IsShortProofScenario(p, r) ==
    /\ r.scheme = "up-to" /\ r.payTo = "M1"
    /\ r.maxAmountRequired = "500000000" /\ r.network = "net-A"
    /\ p.to = "M1" /\ p.amount = "300000000"
    /\ p.network = "net-A" /\ p.signature = ShortProof

\* C5 as claimed: the up-to scenario payload with the proof "abc" is accepted.
C5_Original ==
    \A e \in Calls :
        IsShortProofScenario(e.payload, e.requirements) => IsAccepted(e.result)

\* C5 amended: the up-to scenario payload with the three-character proof
\* "abc" is rejected with the reason 'Invalid signature format'.
C5_ShortProofRejected ==
    \A e \in Calls :
        IsShortProofScenario(e.payload, e.requirements) =>
            e.result = Rejected("Invalid signature format")

C5_Witness ==
    \E e \in Calls :
        /\ IsShortProofScenario(e.payload, e.requirements)
        /\ HasError(e.result)

\* C6: the payload signSolanaPayment produces from the requirements the
\* builder produced is accepted against those requirements.
IsBuilt(r) ==
    \E m \in MerchantAddresses, n \in ProductNames, price \in Prices :
        r = createSolanaPaymentRequirements(m, n, price)
IsSignedFor(p, r) ==
    \E w \in ClientWallets : p = signSolanaPayment(w, r, p.timestamp)

C6_RoundTripAccepted ==
    \A e \in Calls :
        ( IsBuilt(e.requirements) /\ IsSignedFor(e.payload, e.requirements) )
        => /\ IsAccepted(e.result)
           /\ e.result.amount = RequiredAmount(e.requirements)
           /\ Len(e.result.transactionSignature) = 128

C6_Witness ==
    \E e \in Calls :
        /\ IsBuilt(e.requirements)
        /\ IsSignedFor(e.payload, e.requirements)
        /\ e.requirements.maxAmountRequired = "100000000"
        /\ IsAccepted(e.result)

\* C7 as claimed: a payload accepted for one order is not accepted again when
\* it is verified for another order.
C7_SingleUse ==
    \A i, j \in 1..Len(verifyLog) :
        ( /\ i < j
          /\ verifyLog[i].payload = verifyLog[j].payload
          /\ verifyLog[i].order # verifyLog[j].order
          /\ IsAccepted(verifyLog[i].result) )
        => ~IsAccepted(verifyLog[j].result)

\* C8 as claimed: no payload is accepted once the validity window of the
\* requirements (their maxTimeoutSeconds) has elapsed since they were issued.
C8_ExpiredRejected ==
    \A e \in Calls :
        ( /\ "maxTimeoutSeconds" \in DOMAIN e.requirements
          /\ e.at - e.issuedAt > e.requirements.maxTimeoutSeconds )
        => ~IsAccepted(e.result)

\* C9: a result carries an error exactly when it is not valid, and a failing
\* conversion of the amount after the recipient check passed gives a rejected
\* result carrying the conversion error: nothing escapes the call.
C9_ErrorIffRejected ==
    \A e \in Calls :
        /\ IsResult(e.result)
        /\ HasError(e.result) <=> ~e.result.isValid
        /\ ( RecipientOk(e.payload, e.requirements)
             /\ ~AmountsConvert(e.payload, e.requirements) )
           => e.result = Rejected(ConversionError(e.payload, e.requirements))

C9_Witness ==
    \E e \in Calls :
        /\ RecipientOk(e.payload, e.requirements)
        /\ e.payload.amount = "abc"
        /\ e.result = Rejected("Cannot convert abc to a BigInt")

(***************************************************************************)
(* Properties of confirmTransaction.                                       *)
(***************************************************************************)
IsTerminalSuccess(response) ==
    /\ response.kind = "status"
    /\ response.confirmationStatus \in {"confirmed", "finalized"}
    /\ response.err = "null"

\* C10: the poll that observes a terminal success status (confirmed or
\* finalized, no error) is the last one: the call has returned without an
\* error, and every sleep made was made before that poll.
C10_ReturnsOnFirstSuccess ==
    \A i \in 1..Len(polls) :
        IsTerminalSuccess(polls[i]) =>
            /\ i = Len(polls)
            /\ cpc = "returned"
            /\ thrown = NoValue
            /\ sleeps = i - 1
            /\ retries = i - 1

C10_Witness ==
    /\ cpc = "returned"
    /\ Len(polls) = 2
    /\ ~IsTerminalSuccess(polls[1])
    /\ IsTerminalSuccess(polls[2])
    /\ maxRetries = 3

(***************************************************************************)
(* Properties of confirmTransaction as transferSol and requestAirdrop use  *)
(* it.                                                                     *)
(***************************************************************************)
\* The transaction is not known to the node yet, or known and not yet
\* confirmed.
IsPending(response) ==
    \/ response = AbsentStatus
    \/ /\ response.kind = "status"
       /\ response.confirmationStatus = "processed"
       /\ response.err = "null"

AllPending == \A i \in 1..Len(polls) : IsPending(polls[i])

ConfirmEnded == cpc \in {"returned", "threw"}

\* C11: a confirmTransaction call all of whose polls report the transaction
\* absent or pending makes no more than maxRetries status queries, and when it
\* ends it has made exactly maxRetries of them (30, the default, in
\* transferSol and requestAirdrop) and ends with the timeout error.
C11_ExhaustsAttemptsThenTimesOut ==
    (tpc \in {"confirm", "done"} /\ cpc # "idle" /\ AllPending) =>
        /\ maxRetries = DefaultMaxRetries
        /\ Len(polls) <= maxRetries
        /\ ConfirmEnded =>
               /\ Len(polls) = maxRetries
               /\ cpc = "threw"
               /\ thrown = TimeoutError

C11_Witness ==
    /\ tpc = "confirm"
    /\ ConfirmEnded
    /\ AllPending
    /\ Len(polls) = 30
    /\ polls[1].kind = "status"
    /\ polls[2] = AbsentStatus
    /\ thrown = TimeoutError

\* The ledger executed the transaction and the execution failed.
IsExecutionError(response) ==
    /\ response.kind = "status"
    /\ response.confirmationStatus \in {"confirmed", "finalized"}
    /\ response.err # "null"

\* C12: a poll that reports the transaction with an execution error is the
\* last thing confirmTransaction does, on whichever attempt it happens: the
\* call has thrown the "Transaction failed" error, with no query and no sleep
\* after that poll.
C12_FailsImmediately ==
    \A i \in 1..Len(polls) :
        IsExecutionError(polls[i]) =>
            /\ i = Len(polls)
            /\ cpc = "threw"
            /\ thrown = TransactionFailedError(polls[i].err)
            /\ sleeps = i - 1

\* The terminal status of a confirmTransaction call that has ended.
terminalStatus ==
    IF cpc = "returned" THEN "Confirmed"
    ELSE IF cpc = "threw" /\ thrown = TimeoutError THEN "TimedOut"
    ELSE IF cpc = "threw" THEN "Failed"
    ELSE "none"

\* How many times the running operation has made the request named.
Requests(name) == Cardinality({i \in 1..Len(steps) : steps[i] = name})

\* The attempts and pauses a running confirmTransaction call has left at most.
PollerVariant ==
    IF cpc = "poll" THEN 2 * (maxRetries - retries)
    ELSE IF cpc = "sleep" THEN 2 * (maxRetries - retries) - 1
    ELSE 0

ConfirmRunning == cpc \in {"poll", "sleep"}

(***************************************************************************)
(* Properties of transferSol.                                              *)
(***************************************************************************)
TransferDone == tpc = "done" /\ op.name = "transferSol"

TransferOrder ==
    <<"getLatestBlockhash", "signTransactionMessageWithSigners", "sendTransaction">>

\* sendTransaction was called and did not fail.
Submitted == tpc # "idle" /\ Requests("sendTransaction") = 1 /\ cpc # "idle"

\* C14: transferSol never throws: what it gives its caller is always
\* { success, signature } or { success, error }.  It is { success: true,
\* signature } with the signature of the signed transaction exactly when the
\* transaction was submitted and confirmTransaction then returned; after a
\* failure of the blockhash request, the signing, the submission or the
\* confirmation it is { success: false, error } without a signature.  The
\* requests are made in the order blockhash, sign, submit, and status queries
\* only after the submission.
C14_OutcomeMapsTerminalStatus ==
    /\ (tpc # "idle" /\ op.name = "transferSol") =>
           /\ steps = SubSeq(TransferOrder, 1, Len(steps))
           /\ (polls # <<>> \/ cpc # "idle") => steps = TransferOrder
    /\ TransferDone =>
           /\ DOMAIN outcome \in {{"success", "signature"}, {"success", "error"}}
           /\ outcome.success <=> (Submitted /\ cpc = "returned")
           /\ outcome.success => outcome = [success |-> TRUE, signature |-> txSignature]
           /\ ~outcome.success =>
                  /\ DOMAIN outcome = {"success", "error"}
                  /\ outcome.error \in BlockhashErrors \cup SigningErrors \cup SendErrors
                         \cup {TimeoutError, RpcFailure.message,
                               TransactionFailedError("InstructionError")}
                  /\ Submitted => cpc = "threw" /\ outcome.error = thrown

C14_Witness ==
    /\ TransferDone
    /\ outcome.success
    /\ Len(polls) >= 2
    /\ outcome.signature \in TxSignatures

\* C15: within one call of transferSol the signed transaction is submitted at
\* most once, whatever confirmTransaction then observes (pending, RPC errors,
\* failure, timeout): the status queries follow the one submission and no
\* submission follows a status query.
C15_SubmittedAtMostOnce ==
    (tpc # "idle" /\ op.name = "transferSol") =>
        /\ Requests("sendTransaction") <= 1
        /\ polls # <<>> =>
               /\ Requests("sendTransaction") = 1
               /\ steps[Len(steps)] = "sendTransaction"
               /\ tpc \in {"confirm", "done"}

C15_Witness ==
    /\ TransferDone
    /\ Submitted
    /\ cpc = "threw"
    /\ thrown = TimeoutError
    /\ polls[1] = RpcFailure
    /\ polls[Len(polls)] = AbsentStatus
    /\ Requests("sendTransaction") = 1

\* The transaction was submitted and confirmTransaction gave up waiting.
TimedOutAfterSubmission ==
    /\ TransferDone
    /\ Submitted
    /\ cpc = "threw"
    /\ thrown = TimeoutError

\* C16: when confirmTransaction times out after the transaction was
\* submitted, what transferSol gives its caller names the timeout, which no
\* rejection or execution failure is reported as, and carries the signature
\* of the submitted transaction, so that the caller can query its status
\* instead of submitting again.
C16_TimeoutGivesReference ==
    /\ TimedOutAfterSubmission =>
           /\ "error" \in DOMAIN outcome
           /\ outcome.error = TimeoutError
           /\ "signature" \in DOMAIN outcome
           /\ outcome.signature = txSignature
    /\ (TransferDone /\ \E i \in 1..Len(polls) : IsExecutionError(polls[i])) =>
           ("error" \in DOMAIN outcome => outcome.error # TimeoutError)

(***************************************************************************)
(* Properties of the merchant agent.                                       *)
(***************************************************************************)
Builders ==
    {"getProductDetailsAndRequestPayment", "getProductDetailsAndRequestSolanaPayment"}

BuilderCalls == {i \in 1..Len(toolCalls) : toolCalls[i].tool \in Builders}

OnlyWhiteSpace(s) == \A i \in 1..Len(s) : CodeUnits(s)[i] \in WhiteSpaceChars

\* The product name a call was given is no string, or an empty or blank one.
NameIsBlank(params) ==
    LET given == productNameOf(params)
    IN  given.type # "string" \/ OnlyWhiteSpace(given.value)

IssuedRequirement(call) == call.result.kind = "x402PaymentRequiredException"

\* C17: a call of either builder whose product name is empty, blank or not a
\* string ends with the error "Product name cannot be empty.", whatever the
\* state of the Solana wallet: no payment requirement is issued and no
\* product is assumed in place of the missing one.
C17_BlankNameRejected ==
    \A i \in BuilderCalls :
        NameIsBlank(toolCalls[i].params) =>
            /\ toolCalls[i].result = ToolError(EmptyProductNameError)
            /\ ~IssuedRequirement(toolCalls[i])

C17_Witness ==
    /\ Len(toolCalls) = 2
    /\ toolCalls[1].tool = "getProductDetailsAndRequestPayment"
    /\ toolCalls[1].params = JsParams(JsString(" \t"), Undefined)
    /\ toolCalls[2].tool = "getProductDetailsAndRequestSolanaPayment"
    /\ toolCalls[2].params = JsParams(JsNumber(42), Undefined)
    /\ toolCalls[2].walletInit = "pending"
    /\ toolCalls[2].result.kind = "Error"

\* C18: a builder fails only for an empty or invalid product name: every call
\* of either builder with a non-empty product name, made at any time after
\* the module has loaded (the asynchronous creation of the Solana wallet may
\* not have completed), issues a payment requirement.
C18_NonEmptyNameIssuesRequirement ==
    \A i \in BuilderCalls :
        ~NameIsBlank(toolCalls[i].params) => IssuedRequirement(toolCalls[i])

IssuedCalls == {i \in BuilderCalls : IssuedRequirement(toolCalls[i])}

ConfiguredNetwork ==
    IF env.PAYMENT_NETWORK = Undefined THEN "base-sepolia" ELSE env.PAYMENT_NETWORK.value

\* C19: with the fixed price table the builders are deterministic: every
\* requirement issued has scheme exact, the configured merchant address of
\* its chain as recipient, the configured network, and the fixed price
\* (1000000 from the Ethereum builder, 100000000 lamports from the Solana
\* builder) whatever the product; two calls of the same builder for the same
\* product issue equal requirements.
C19_RequirementsDeterministic ==
    /\ \A i \in IssuedCalls :
           LET call == toolCalls[i]
               reqs == call.result.requirements
           IN  /\ reqs.scheme = "exact"
               /\ reqs.extra.product.name = productNameOf(call.params).value
               /\ IF call.tool = "getProductDetailsAndRequestPayment"
                  THEN /\ reqs.payTo = env.MERCHANT_WALLET_ADDRESS.value
                       /\ reqs.network = ConfiguredNetwork
                       /\ reqs.maxAmountRequired = "1000000"
                  ELSE /\ reqs.payTo = solanaMerchantAddress.value
                       /\ reqs.network = "solana-devnet"
                       /\ reqs.maxAmountRequired = "100000000"
    /\ \A i, j \in IssuedCalls :
           (/\ toolCalls[i].tool = toolCalls[j].tool
            /\ productNameOf(toolCalls[i].params) = productNameOf(toolCalls[j].params)) =>
               toolCalls[i].result = toolCalls[j].result

C19_Witness ==
    /\ IssuedCalls = {1, 2}
    /\ toolCalls[1].tool = toolCalls[2].tool
    /\ toolCalls[1].params = JsParams(Undefined, JsString("banana"))
    /\ toolCalls[2].params = JsString("banana")
    /\ toolCalls[1].result.requirements = toolCalls[2].result.requirements
    /\ toolCalls[1].result.requirements.network = "base"

AddressMissing == env # NoValue /\ ~Truthy(env.MERCHANT_WALLET_ADDRESS)

\* C20: when MERCHANT_WALLET_ADDRESS is missing (unset or empty) the load of
\* the merchant module aborts before the wallet creation is started and
\* before the agent and its tools exist: in no reachable state has a merchant
\* without a configured address answered a tool call, so none has issued a
\* requirement or confirmed an order.
C20_MissingAddressAbortsStartup ==
    /\ AddressMissing =>
           /\ mpc = "aborted"
           /\ walletInit = "none"
           /\ solanaMerchantAddress = Undefined
           /\ toolCalls = <<>>
    /\ toolCalls # <<>> =>
           /\ env.MERCHANT_WALLET_ADDRESS.type = "string"
           /\ env.MERCHANT_WALLET_ADDRESS.value # ""

C20_Witness ==
    /\ env # NoValue
    /\ env.MERCHANT_WALLET_ADDRESS = Undefined
    /\ mpc = "aborted"

\* C29: a status query that fails with an RPC error on an attempt before the
\* last is treated like a pending status: the call goes on to its sleep and
\* its next attempt, and the error is not what the call ends with; an RPC
\* error on the last attempt ends the call with that error, not with the
\* timeout error; and a poll that sees a terminal success after earlier RPC
\* errors still makes the call return.
C29_RpcErrorRetriedUntilLastAttempt ==
    /\ \A i \in 1..Len(polls) :
           polls[i] = RpcFailure =>
               IF i < maxRetries
               THEN i = Len(polls) => cpc \in {"sleep", "poll"} /\ sleeps >= i - 1
               ELSE /\ i = Len(polls)
                    /\ cpc = "threw"
                    /\ thrown = RpcFailure.message
    /\ (cpc = "threw" /\ thrown = RpcFailure.message) =>
           /\ Len(polls) = maxRetries
           /\ polls[maxRetries] = RpcFailure
    /\ (polls # <<>> /\ IsTerminalSuccess(polls[Len(polls)])) => cpc = "returned"

C29_Witness ==
    /\ cpc = "returned"
    /\ Len(polls) = 3
    /\ polls[1] = RpcFailure
    /\ polls[2] = RpcFailure
    /\ IsTerminalSuccess(polls[3])

(***************************************************************************)
(* Properties of the on-chain verification.                                *)
(***************************************************************************)
Lookups == {onChainLog[i] : i \in 1..Len(onChainLog)}

\* The lookup found the transaction confirmed on the ledger.
FoundConfirmed(lookup) == lookup.response.kind = "value"

\* C22: a payload whose proof is the signature of a transaction is accepted
\* by verifyPayment only if the ledger holds that transaction as confirmed; a
\* transaction that is not found or not confirmed makes the payload rejected.
C22_ReferenceAcceptedOnlyIfConfirmed ==
    \A c \in Calls :
        (IsAccepted(c.result) /\ c.payload.signature \in TxReferences) =>
            ledger[c.payload.signature] # NoValue

\* C23: when the lookup found the transaction confirmed, an accepting result
\* carries the amount, sender and recipient the ledger holds for it, and the
\* result is accepting only if the amount on the ledger covers the expected
\* amount and the sender on the ledger is the expected one.
C23_OnChainValuesAuthoritative ==
    \A lookup \in Lookups :
        (FoundConfirmed(lookup) /\ lookup.result.isValid) =>
            LET tx == lookup.response.value
            IN  /\ lookup.result.amount # Undefined
                /\ lookup.result.amount = tx.amount
                /\ lookup.result.from # Undefined
                /\ lookup.result.from = tx.from
                /\ lookup.result.to # Undefined
                /\ lookup.result.to = tx.to
                /\ tx.amount >= lookup.expectedAmount
                /\ lookup.expectedFrom # Undefined => tx.from = lookup.expectedFrom.value

\* C24: the verdict of verifyOnChainTransaction is that of the lookup alone:
\* isValid is true exactly when the lookup found the transaction confirmed,
\* whatever expectedAmount and expectedFrom are, so that two calls with the
\* same lookup agree; a transaction that is absent and a lookup that fails
\* with an RPC error give a result with isValid false and an error text, not
\* an exception.
C24_VerdictIsLookupOnly ==
    /\ \A lookup \in Lookups :
           /\ IsResult(lookup.result)
           /\ lookup.result.isValid <=> FoundConfirmed(lookup)
           /\ ~FoundConfirmed(lookup) => lookup.result = Rejected(NotConfirmedError)
    /\ \A a, b \in Lookups :
           (a.txSignature = b.txSignature /\ a.response = b.response) =>
               a.result.isValid = b.result.isValid

C24_Witness ==
    /\ Len(onChainLog) = 2
    /\ FoundConfirmed(onChainLog[1])
    /\ onChainLog[1].response = onChainLog[2].response
    /\ onChainLog[1].response.value.amount = 1
    /\ onChainLog[1].expectedAmount # onChainLog[2].expectedAmount
    /\ onChainLog[1].expectedFrom # onChainLog[2].expectedFrom
    /\ onChainLog[1].result.isValid
    /\ onChainLog[2].result.isValid

(***************************************************************************)
(* The payment-flow test: testSolanaPaymentFlow, from one await to the     *)
(* next.  Every request it awaits either resolves or rejects; a rejection  *)
(* and every error the script throws land in its catch block.              *)
(***************************************************************************)
PRODUCT_NAME == "banana"
PRODUCT_PRICE_LAMPORTS == 100000000

WalletCreateErrors == {"Failed to generate key pair"}
BalanceErrors == {"fetch failed"}

\* What signData resolves to: the 64 bytes of a signature, or fewer bytes
\* from a signer of another kind.
SignDataResults == SignatureBytes \cup {[i \in 1..32 |-> 0]}

\* Balances of the merchant wallet before the transfer, and what can have
\* been added to it when it is read again.
BalancesBefore == {0, 5000}
BalanceIncreases == {0, 98999999, 99000000, 100000000}

Resolutions(values, errors) == {Returned(v) : v \in values} \cup {Threw(e) : e \in errors}

verifySolanaPaymentSignature(p) == Len(p.signature) > 0 /\ Len(p.signature) = 128

\* A settlement test that accepts any balance.
paymentReceived_AnyBalance(before, after) == TRUE

\* The settlement test: Number( after - before ) / 1e9 is not below
\* PRODUCT_PRICE_SOL * 0.99 (0.099); on whole lamports that is an increase of
\* at least 99000000.
paymentReceived(before, after) ==
    after - before >= (PRODUCT_PRICE_LAMPORTS \div 100) * 99

SignatureFailedError == "Payment signature verification failed"
TransferFailedError(err) == "Transfer failed: " \o err
NotReceivedError == "Payment not fully received by merchant"

\* The catch block: the error is printed and the process exits with code 1.
FlowCatch(message) ==
    /\ fpc' = "failed"
    /\ flowError' = message
    /\ exitCode' = 1

FlowGoesOn(pc) ==
    /\ fpc' = pc
    /\ UNCHANGED <<flowError, exitCode>>

\* The script is run: SolanaWallet.create for the merchant is called.
StartFlow ==
    /\ fpc = "notStarted"
    /\ FlowGoesOn("createMerchantWallet")
    /\ UNCHANGED <<merchantWallet, clientAddress, paymentRequirements, paymentPayload,
                   merchantBalanceBefore, merchantBalanceAfter, transferResult, flowSteps>>
    /\ UNCHANGED exceptFlow

\* Step 1: the merchant wallet is there; the client wallet is created.
MerchantWalletCreated(result) ==
    /\ fpc = "createMerchantWallet"
    /\ IF result.ok
       THEN /\ merchantWallet' = result.value
            /\ FlowGoesOn("createClientWallet")
       ELSE /\ FlowCatch(result.message)
            /\ UNCHANGED merchantWallet
    /\ UNCHANGED <<clientAddress, paymentRequirements, paymentPayload,
                   merchantBalanceBefore, merchantBalanceAfter, transferResult, flowSteps>>
    /\ UNCHANGED exceptFlow

\* Step 1: the client wallet is there; step 2 requests the airdrop.
ClientWalletCreated(result) ==
    /\ fpc = "createClientWallet"
    /\ IF result.ok
       THEN /\ clientAddress' = result.value
            /\ FlowGoesOn("requestAirdrop")
       ELSE /\ FlowCatch(result.message)
            /\ UNCHANGED clientAddress
    /\ UNCHANGED <<merchantWallet, paymentRequirements, paymentPayload,
                   merchantBalanceBefore, merchantBalanceAfter, transferResult, flowSteps>>
    /\ UNCHANGED exceptFlow

\* Step 2: the airdrop has settled; the client balance is asked for.
AirdropCompleted(result) ==
    /\ fpc = "requestAirdrop"
    /\ IF result.ok THEN FlowGoesOn("getClientBalance") ELSE FlowCatch(result.message)
    /\ UNCHANGED <<merchantWallet, clientAddress, paymentRequirements, paymentPayload,
                   merchantBalanceBefore, merchantBalanceAfter, transferResult, flowSteps>>
    /\ UNCHANGED exceptFlow

\* Step 2 ends with the client balance; step 3 creates the payment
\* requirements; step 4 enters signSolanaPayment, which awaits signData.
ClientBalanceRead(result) ==
    /\ fpc = "getClientBalance"
    /\ IF result.ok
       THEN /\ paymentRequirements' =
                    createSolanaPaymentRequirements(merchantWallet, PRODUCT_NAME,
                                                    PRODUCT_PRICE_LAMPORTS)
            /\ flowSteps' = Append(flowSteps, "requirementsCreated")
            /\ FlowGoesOn("signData")
       ELSE /\ FlowCatch(result.message)
            /\ UNCHANGED <<paymentRequirements, flowSteps>>
    /\ UNCHANGED <<merchantWallet, clientAddress, paymentPayload,
                   merchantBalanceBefore, merchantBalanceAfter, transferResult>>
    /\ UNCHANGED exceptFlow

\* Step 4: signData has settled and signSolanaPayment returns the payload;
\* step 5 checks its signature; step 6 asks for the merchant balance.
DataSigned(result) ==
    /\ fpc = "signData"
    /\ IF ~result.ok
       THEN /\ FlowCatch(result.message)
            /\ UNCHANGED <<paymentPayload, flowSteps>>
       ELSE LET signed == signSolanaPayment([address |-> clientAddress,
                                             signData |-> result.value],
                                            paymentRequirements, now)
            IN  /\ paymentPayload' = signed
                /\ IF verifySolanaPaymentSignature(signed)
                   THEN /\ flowSteps' = flowSteps \o <<"payloadSigned", "signatureVerified">>
                        /\ FlowGoesOn("getMerchantBalanceBefore")
                   ELSE /\ flowSteps' = Append(flowSteps, "payloadSigned")
                        /\ FlowCatch(SignatureFailedError)
    /\ UNCHANGED <<merchantWallet, clientAddress, paymentRequirements,
                   merchantBalanceBefore, merchantBalanceAfter, transferResult>>
    /\ UNCHANGED exceptFlow

\* Step 6: the merchant balance is read and transferSol is called.
MerchantBalanceBeforeRead(result) ==
    /\ fpc = "getMerchantBalanceBefore"
    /\ IF result.ok
       THEN /\ merchantBalanceBefore' = result.value
            /\ FlowGoesOn("transferSol")
       ELSE /\ FlowCatch(result.message)
            /\ UNCHANGED merchantBalanceBefore
    /\ UNCHANGED <<merchantWallet, clientAddress, paymentRequirements, paymentPayload,
                   merchantBalanceAfter, transferResult, flowSteps>>
    /\ UNCHANGED exceptFlow

\* Step 6: transferSol has returned; on success step 7 starts its wait.
TransferReturned(result) ==
    /\ fpc = "transferSol"
    /\ transferResult' = result
    /\ IF result.success
       THEN /\ flowSteps' = Append(flowSteps, "transferSucceeded")
            /\ FlowGoesOn("waitForBalance")
       ELSE /\ FlowCatch(TransferFailedError(result.error))
            /\ UNCHANGED flowSteps
    /\ UNCHANGED <<merchantWallet, clientAddress, paymentRequirements, paymentPayload,
                   merchantBalanceBefore, merchantBalanceAfter>>
    /\ UNCHANGED exceptFlow

\* Step 7: the two seconds have passed; the merchant balance is asked for.
BalanceWaitOver ==
    /\ fpc = "waitForBalance"
    /\ FlowGoesOn("getMerchantBalanceAfter")
    /\ UNCHANGED <<merchantWallet, clientAddress, paymentRequirements, paymentPayload,
                   merchantBalanceBefore, merchantBalanceAfter, transferResult, flowSteps>>
    /\ UNCHANGED exceptFlow

\* Step 7: the merchant balance is read; the client balance is asked for.
MerchantBalanceAfterRead(result) ==
    /\ fpc = "getMerchantBalanceAfter"
    /\ IF result.ok
       THEN /\ merchantBalanceAfter' = result.value
            /\ FlowGoesOn("getClientBalanceAfter")
       ELSE /\ FlowCatch(result.message)
            /\ UNCHANGED merchantBalanceAfter
    /\ UNCHANGED <<merchantWallet, clientAddress, paymentRequirements, paymentPayload,
                   merchantBalanceBefore, transferResult, flowSteps>>
    /\ UNCHANGED exceptFlow

\* Step 7: the client balance is read and the increase of the merchant
\* balance is tested; step 8 confirms the order and the script ends.
ClientBalanceAfterRead(result) ==
    /\ fpc = "getClientBalanceAfter"
    /\ IF ~result.ok
       THEN /\ FlowCatch(result.message)
            /\ UNCHANGED flowSteps
       ELSE IF ~paymentReceived(merchantBalanceBefore, merchantBalanceAfter)
       THEN /\ FlowCatch(NotReceivedError)
            /\ UNCHANGED flowSteps
       ELSE /\ flowSteps' = flowSteps \o <<"paymentSettled", "orderConfirmed">>
            /\ fpc' = "passed"
            /\ exitCode' = 0
            /\ UNCHANGED flowError
    /\ UNCHANGED <<merchantWallet, clientAddress, paymentRequirements, paymentPayload,
                   merchantBalanceBefore, merchantBalanceAfter, transferResult>>
    /\ UNCHANGED exceptFlow

NextFlow ==
    \/ StartFlow
    \/ \E result \in Resolutions(MerchantAddresses, WalletCreateErrors) :
            MerchantWalletCreated(result)
    \/ \E result \in Resolutions(ClientAddresses, WalletCreateErrors) :
            ClientWalletCreated(result)
    \/ \E result \in Resolutions(TxSignatures, AirdropErrors) : AirdropCompleted(result)
    \/ \E result \in Resolutions({2000000000}, BalanceErrors) : ClientBalanceRead(result)
    \/ \E result \in Resolutions(SignDataResults, SigningErrors) : DataSigned(result)
    \/ \E result \in Resolutions(BalancesBefore, BalanceErrors) :
            MerchantBalanceBeforeRead(result)
    \/ \E result \in {transferSuccess(sig) : sig \in TxSignatures}
                        \cup {transferFailure(e) : e \in SendErrors \cup {TimeoutError}} :
            TransferReturned(result)
    \/ BalanceWaitOver
    \/ \E result \in Resolutions({merchantBalanceBefore + i : i \in BalanceIncreases},
                                 BalanceErrors) :
            MerchantBalanceAfterRead(result)
    \/ \E result \in Resolutions({1899995000}, BalanceErrors) : ClientBalanceAfterRead(result)

SpecFlow == Init /\ [][NextFlow]_vars

(***************************************************************************)
(* Properties of the client agent.                                         *)
(***************************************************************************)
Transfers == 1..Len(transfers)

\* The transfers confirmPayment made, each for the payment pending at its call.
PaymentTransfers == {k \in Transfers : transfers[k].payment # ""}

\* The payment option the call of a transfer read from the pending payment.
OptionOf(k) == calls[transfers[k].call].payment.requirements.accepts[1]

\* C21: a transfer made for a pending payment whose requirement is a Solana
\* one (network solana-devnet, asset SOL) is made on Solana, to the recipient
\* and for the amount of the requirement.
C21_SolanaRequirementPaidOnSolana ==
    \A k \in PaymentTransfers :
        (OptionOf(k).network = "solana-devnet" /\ OptionOf(k).asset = "SOL") =>
            /\ transfers[k].chain = "solana"
            /\ transfers[k].to = OptionOf(k).payTo
            /\ transfers[k].amount = 100000000

\* C25: no confirmPayment call that starts after a transfer for the pending
\* payment has ended in a timeout (submitted, outcome unknown) makes another
\* transfer for that payment.
C25_NoTransferAfterUnknownOutcome ==
    \A a, b \in PaymentTransfers :
        (/\ transfers[a].payment = transfers[b].payment
         /\ transfers[a].status = "timeout") =>
            transfers[b].call <= transfers[a].ended

CancelledCalls == {j \in 1..Len(calls) : calls[j].pc = "cancelled"}

\* The last tool call was started in this step, by the tool named.
Started(tool) ==
    /\ Len(calls') = Len(calls) + 1
    /\ calls'[Len(calls')].tool = tool

\* C26: confirmPayment and cancelPayment called while no payment is pending
\* only return their 'No pending payment' message: they start no transfer,
\* send nothing, and leave the state of the agent as it was; and a
\* confirmPayment called after cancelPayment has cleared a pending payment
\* makes no transfer for that payment.
C26_NoPendingNoEffect ==
    /\ [][((Started("confirmPayment") \/ Started("cancelPayment"))
              /\ pendingPayment = Undefined) =>
               /\ calls'[Len(calls')].pc \in {"noPending", "noPendingToCancel"}
               /\ calls'[Len(calls')].transfer = 0
               /\ transfers' = transfers
               /\ notifications' = notifications
               /\ sessionRequests' = sessionRequests
               /\ pendingPayment' = pendingPayment
               /\ sessionId' = sessionId]_calls
    /\ [](\A j \in CancelledCalls, k \in Transfers :
              transfers[k].payment = calls[j].payment.taskId => transfers[k].call < j)

C26_Witness ==
    /\ Len(calls) = 3
    /\ calls[2].pc = "cancelled"
    /\ calls[3].pc = "noPending"
    /\ transfers = <<>>
    /\ pendingPayment = Undefined

\* C27: for one pending payment at most one transfer is carried out, however
\* the tool calls overlap: no two transfers for the same payment are both
\* confirmed, and no transfer is confirmed for a payment that cancelPayment
\* has reported as cancelled.
C27_OneTransferPerPayment ==
    /\ \A a, b \in PaymentTransfers :
           (/\ a # b
            /\ transfers[a].payment = transfers[b].payment
            /\ transfers[a].status = "confirmed") =>
               transfers[b].status # "confirmed"
    /\ \A j \in CancelledCalls, k \in Transfers :
           transfers[k].payment = calls[j].payment.taskId =>
               transfers[k].status # "confirmed"

SendCalls == {i \in 1..Len(calls) : calls[i].tool = "sendMessageToMerchant"}

\* C28: the client agent creates at most one merchant session: the session
\* id, once set, is that of the first session, every message is sent under
\* it, and a failed session creation leaves the id unset; also when
\* sendMessageToMerchant calls overlap.
C28_OneSession ==
    /\ sessions <= 1
    /\ sessionId \in {Undefined, JsString("session-1")}
    /\ sessions = 0 => sessionId = Undefined
    /\ \A i \in SendCalls :
           calls[i].pc \notin {"awaitSession", "failedToContact"} =>
               calls[i].session = JsString("session-1")

(***************************************************************************)
(* Properties of the payment-flow test.                                    *)
(***************************************************************************)
FlowOrder ==
    <<"requirementsCreated", "payloadSigned", "signatureVerified", "transferSucceeded",
      "paymentSettled", "orderConfirmed">>

\* C30: the order is confirmed only after, in this order, the requirements
\* were created, the client signed a payload for them, the signature check
\* passed, the transfer returned success and the merchant balance rose by at
\* least 99% of the price; a script that ended any other way ended in its
\* catch block, with exit code 1 and without confirming; a failed signature
\* check, a failed transfer and a smaller rise of the balance each end there.
C30_ConfirmedOnlyAfterEveryStep ==
    /\ \A n \in 1..Len(flowSteps) : flowSteps[n] = FlowOrder[n]
    /\ fpc = "passed" =>
          /\ flowSteps = FlowOrder
          /\ exitCode = 0
          /\ paymentRequirements =
                createSolanaPaymentRequirements(merchantWallet, PRODUCT_NAME,
                                                PRODUCT_PRICE_LAMPORTS)
          /\ paymentPayload.to = paymentRequirements.payTo
          /\ paymentPayload.amount = paymentRequirements.maxAmountRequired
          /\ Len(paymentPayload.signature) = 128
          /\ transferResult.success
          /\ merchantBalanceAfter - merchantBalanceBefore
                >= (PRODUCT_PRICE_LAMPORTS \div 100) * 99
    /\ (fpc = "failed") = (exitCode = 1)
    /\ (fpc = "failed") = (flowError # "")
    /\ fpc = "failed" => \A n \in 1..Len(flowSteps) : flowSteps[n] # "orderConfirmed"
    /\ (paymentPayload # NoValue /\ Len(paymentPayload.signature) # 128) => fpc = "failed"
    /\ (transferResult # NoValue /\ ~transferResult.success) => fpc = "failed"
    /\ exitCode # -1 =>
          (fpc = "passed") = (merchantBalanceAfter - merchantBalanceBefore
                                >= (PRODUCT_PRICE_LAMPORTS \div 100) * 99
                              /\ flowError = "")

\* The merchant balance rose by less than 99% of the price and the script
\* ended in its catch block.
C30_Witness ==
    /\ fpc = "failed"
    /\ exitCode = 1
    /\ flowError = NotReceivedError
    /\ merchantBalanceAfter - merchantBalanceBefore = 98999999
    /\ flowSteps = SubSeq(FlowOrder, 1, 4)

(***************************************************************************)
(* Termination of the poller, and the absence of any other retry.          *)
(***************************************************************************)
\* Where the wallet's code stands; every step of the wallet changes it.
walletPosition == <<tpc, cpc, retries>>

LastPoll == polls[Len(polls)]

\* The transfers a tool call of the client agent has started.
TransfersOf(i) == {k \in Transfers : transfers[k].call = i}

\* C13: confirmTransaction always terminates: whatever the responses (absent,
\* pending, confirmed, errored, failing RPC call) it never makes more than
\* maxRetries status queries; while it is polling or sleeping it can take a
\* step, and every step leaves it strictly fewer attempts and pauses, so it
\* ends.  It ends as Confirmed (it returned on a confirmed or finalized status
\* without error), as TimedOut (the timeout error after maxRetries queries) or
\* as Failed (the error of its last query, an execution error or a failed RPC
\* call).  Nothing else is attempted again: within one wallet operation the
\* blockhash request, the signing, the submission and the airdrop request are
\* each made at most once, also when a tool of the client agent made the
\* call; a verification makes one ledger lookup, while it waits and after it
\* returned, whatever the lookup gives, and the verification of a payment is
\* evaluated once for the call, looks nothing up and is not followed by a
\* lookup of its own; a tool call of the client agent starts at most one
\* transfer, however that transfer ends; the merchant is notified at most
\* once for each confirmed transfer, whatever the notification gives; and a
\* session is requested at most once for each message.
C13_PollerTerminatesOnlyRetry ==
    /\ [](cpc # "idle" => Len(polls) <= maxRetries)
    /\ [](ConfirmRunning => PollerVariant > 0 /\ ENABLED NextOperations)
    /\ [][ConfirmRunning => PollerVariant' < PollerVariant]_walletPosition
    /\ [](ConfirmEnded =>
            \/ /\ cpc = "returned"
               /\ polls # <<>>
               /\ LastPoll.kind = "status"
               /\ LastPoll.confirmationStatus \in {"confirmed", "finalized"}
               /\ LastPoll.err = "null"
            \/ /\ cpc = "threw"
               /\ thrown = TimeoutError
               /\ Len(polls) = maxRetries
            \/ /\ cpc = "threw"
               /\ thrown # TimeoutError
               /\ polls # <<>>
               /\ Len(polls) = maxRetries
               /\ \/ LastPoll.kind = "rpcError" /\ thrown = LastPoll.message
                  \/ /\ LastPoll.kind = "status"
                     /\ LastPoll.err # "null"
                     /\ thrown = TransactionFailedError(LastPoll.err))
    /\ [](\A name \in {"getLatestBlockhash", "signTransactionMessageWithSigners",
                        "sendTransaction", "requestAirdrop"} : Requests(name) <= 1)
    /\ [](/\ \A lookup \in Lookups : lookup.requests = <<"getTransaction">>
          /\ \A k \in 1..Len(lookupsInFlight) :
                 lookupsInFlight[k].requests = <<"getTransaction">>)
    /\ [][/\ Len(verifyLog') <= Len(verifyLog) + 1
          /\ Len(onChainLog') <= Len(onChainLog) + 1
          /\ verifyLog' = verifyLog \/ onChainLog' = onChainLog]_<<verifyLog, onChainLog>>
    /\ [](\A i \in 1..Len(calls) : Cardinality(TransfersOf(i)) <= 1)
    /\ [](notifications <= Cardinality({k \in Transfers :
                                            /\ transfers[k].chain = "ethereum"
                                            /\ transfers[k].status = "confirmed"}))
    /\ [](sessionRequests <= Cardinality(SendCalls))

C13_Witness ==
    /\ ConfirmEnded
    /\ terminalStatus = "TimedOut"
    /\ Len(polls) = maxRetries
    /\ Requests("sendTransaction") = 1
    /\ \E i \in 1..Len(polls) : polls[i] = RpcFailure

====
